---- MODULE Spec2Model ----
(***************************************************************************)
(* Verification model of the rust-chess-engine repository.                 *)
(*                                                                         *)
(* A Bitboard (u64) is modelled as the set of its set bit indices, a       *)
(* subset of 0..63.  Bit 63 is a8, bit 56 is h8, bit 7 is a1, bit 0 is h1  *)
(* (the numbering used by from_fen_notation and TryFrom<&str>).  A shift   *)
(* keeps the 64-bit width: bits shifted past either end are dropped.       *)
(*                                                                         *)
(* The repository holds two generations of the same engine:                *)
(*   "types"      : types/board.rs (hashmap of bitboards),                 *)
(*                  moves/generator.rs, utils/evaluation.rs, main.rs       *)
(*   "components" : components/*.rs (struct of bitboards),                 *)
(*                  moves/generate.rs, moves/generators.rs, evaluator/*.rs *)
(* Both are modelled; the variable impl says which one a run executes.     *)
(*                                                                         *)
(* Two files the sources import are not among them: the constants module   *)
(* (file masks, rows) and moves/attack.rs of the "types" generation.  The  *)
(* masks are the ones the shifts of moves/generators.rs need; the          *)
(* generators of moves/generators.rs, called with one square at a time as  *)
(* types/piece.rs and moves/generator.rs call theirs, stand for attack.rs. *)
(***************************************************************************)
EXTENDS Integers, Sequences, FiniteSets, TLC

Squares == 0..63

Colors == {"White", "Black"}

other(c) == IF c = "White" THEN "Black" ELSE "White"

\* PieceKind::iter() order
Kinds == <<"Pawn", "Knight", "Bishop", "Rook", "Queen", "King">>

\* The twelve pieces, named by their FEN letter, in the order of
\* BBPosition::into_iter.
PieceOrder == <<"P", "N", "B", "R", "Q", "K", "p", "n", "b", "r", "q", "k">>

Pieces == {PieceOrder[i] : i \in 1..12}

WhitePieces == {"P", "N", "B", "R", "Q", "K"}

color_of(p) == IF p \in WhitePieces THEN "White" ELSE "Black"

kind_of(p) ==
    CASE p \in {"P", "p"} -> "Pawn"
      [] p \in {"N", "n"} -> "Knight"
      [] p \in {"B", "b"} -> "Bishop"
      [] p \in {"R", "r"} -> "Rook"
      [] p \in {"Q", "q"} -> "Queen"
      [] OTHER -> "King"

\* Piece::new(color, kind)
Piece(c, k) ==
    CASE k = "Pawn"   -> IF c = "White" THEN "P" ELSE "p"
      [] k = "Knight" -> IF c = "White" THEN "N" ELSE "n"
      [] k = "Bishop" -> IF c = "White" THEN "B" ELSE "b"
      [] k = "Rook"   -> IF c = "White" THEN "R" ELSE "r"
      [] k = "Queen"  -> IF c = "White" THEN "Q" ELSE "q"
      [] OTHER        -> IF c = "White" THEN "K" ELSE "k"

PiecesOf(c) == {p \in Pieces : color_of(p) = c}

\* PieceKind::value
value(k) ==
    CASE k = "Pawn" -> 1000
      [] k = "Knight" -> 3000
      [] k = "Bishop" -> 3100
      [] k = "Rook" -> 5000
      [] k = "Queen" -> 9000
      [] OTHER -> 1000000000

(***************************************************************************)
(* Bitboard operations                                                     *)
(***************************************************************************)
Shl(S, n) == {s + n : s \in {x \in S : x + n <= 63}}

Shr(S, n) == {s - n : s \in {x \in S : x - n >= 0}}

\* File masks of constants.rs (the file is not part of the sources; the
\* masks are fixed by the square numbering: file a is column 7, file h is
\* column 0).
NOT_A_RANK == {s \in Squares : s % 8 # 7}

NOT_B_RANK == {s \in Squares : s % 8 # 6}

NOT_G_RANK == {s \in Squares : s % 8 # 1}

NOT_H_RANK == {s \in Squares : s % 8 # 0}

FIRST_ROW == 0..7

SECOND_ROW == 8..15

SEVENTH_ROW == 48..55

EIGHT_ROW == 56..63

(***************************************************************************)
(* moves/generators.rs                                                     *)
(***************************************************************************)
white_pawn_attack(starting_position, blockers, black_pieces) ==
    ((Shl(starting_position, 7) \cap NOT_A_RANK)
        \cup (Shl(starting_position, 9) \cap NOT_H_RANK))
    \cap black_pieces

black_pawn_attack(starting_position, blockers, white_pieces) ==
    ((Shr(starting_position, 7) \cap NOT_H_RANK)
        \cup (Shr(starting_position, 9) \cap NOT_A_RANK))
    \cap white_pieces

\* Pawn pushes without the two-square advance from the second row.
white_pawn_single_step(starting_position, blockers) ==
    Shl(starting_position, 8) \ blockers

white_pawn_quiet_moves(starting_position, blockers) ==
    IF starting_position \cap SECOND_ROW # {}
    THEN (Shl(starting_position, 8) \ blockers)
         \cup ((Shl(starting_position, 16) \ blockers) \ Shl(blockers, 8))
    ELSE Shl(starting_position, 8) \ blockers

black_pawn_quiet_moves(starting_position, blockers) ==
    IF starting_position \cap SEVENTH_ROW # {}
    THEN (Shr(starting_position, 8) \ blockers)
         \cup ((Shr(starting_position, 16) \ blockers) \ Shr(blockers, 8))
    ELSE Shr(starting_position, 8) \ blockers

white_pawn(starting_position, blockers, enemies) ==
    white_pawn_attack(starting_position, blockers, enemies)
    \cup white_pawn_quiet_moves(starting_position, blockers)

black_pawn(starting_position, blockers, enemies) ==
    black_pawn_attack(starting_position, blockers, enemies)
    \cup black_pawn_quiet_moves(starting_position, blockers)

knight(starting_position, blockers, enemies) ==
    ((Shl(starting_position, 15) \cap NOT_A_RANK)
     \cup (Shr(starting_position, 15) \cap NOT_H_RANK)
     \cup (Shl(starting_position, 17) \cap NOT_H_RANK)
     \cup (Shr(starting_position, 17) \cap NOT_A_RANK)
     \cup (Shr(starting_position, 6) \cap NOT_H_RANK \cap NOT_G_RANK)
     \cup (Shl(starting_position, 6) \cap NOT_A_RANK \cap NOT_B_RANK)
     \cup (Shl(starting_position, 10) \cap NOT_H_RANK \cap NOT_G_RANK)
     \cup (Shr(starting_position, 10) \cap NOT_A_RANK \cap NOT_B_RANK))
    \ blockers

king(starting_position, blockers, enemies) ==
    ((Shl(starting_position, 1) \cap NOT_H_RANK)
     \cup (Shl(starting_position, 9) \cap NOT_H_RANK)
     \cup (Shr(starting_position, 7) \cap NOT_H_RANK)
     \cup Shl(starting_position, 8)
     \cup (Shl(starting_position, 7) \cap NOT_A_RANK)
     \cup (Shr(starting_position, 1) \cap NOT_A_RANK)
     \cup (Shr(starting_position, 9) \cap NOT_A_RANK)
     \cup Shr(starting_position, 8))
    \ blockers

RECURSIVE RayThroughEnemies(_, _, _, _, _, _)
\* A ray loop that does not break after an enemy piece.
RayThroughEnemies(row, col, dr, dc, blockers, enemies) ==
    IF row < 0 \/ row > 7 \/ col < 0 \/ col > 7 THEN {}
    ELSE LET add_position == row * 8 + col IN
         IF add_position \in blockers THEN {}
         ELSE {add_position} \cup RayThroughEnemies(row + dr, col + dc, dr, dc, blockers, enemies)

\* One ray loop of bishop/rook: from (row, col) in steps of (dr, dc) while on
\* the board; break before a blocker, break after an enemy.
RECURSIVE Ray(_, _, _, _, _, _)
Ray(row, col, dr, dc, blockers, enemies) ==
    IF row < 0 \/ row > 7 \/ col < 0 \/ col > 7 THEN {}
    ELSE LET add_position == row * 8 + col IN
         IF add_position \in blockers THEN {}
         ELSE IF add_position \in enemies THEN {add_position}
         ELSE {add_position} \cup Ray(row + dr, col + dc, dr, dc, blockers, enemies)

\* The same loop body over an explicit sequence of bit indices.
RECURSIVE RaySeq(_, _, _, _)
RaySeq(sq, i, blockers, enemies) ==
    IF i > Len(sq) THEN {}
    ELSE IF sq[i] \in blockers THEN {}
    ELSE IF sq[i] \in enemies THEN {sq[i]}
    ELSE {sq[i]} \cup RaySeq(sq, i + 1, blockers, enemies)

\* 63 - leading_zeros(): the index of the highest set bit.
HighestBit(S) == CHOOSE x \in S : \A y \in S : y <= x

\* bishop(): only the piece on the highest set bit is walked.  On an empty
\* bitboard `63 - leading_zeros()` underflows (u32): a debug build panics
\* (see SliderPanics); a release build wraps to offset 2^32-1, row 2^29-1,
\* column 7, so only the fourth loop runs, with the shift amounts
\* (row*8 + col) wrapping (i32) and masked to 6 bits: 54, 45, ..., 0.
bishop(starting_position, blockers, enemies) ==
    IF starting_position = {}
    THEN RaySeq(<<54, 45, 36, 27, 18, 9, 0>>, 1, blockers, enemies)
    ELSE LET offset == HighestBit(starting_position)
             row == offset \div 8
             column_from_end == offset % 8
         IN Ray(row + 1, column_from_end + 1, 1, 1, blockers, enemies)
            \cup Ray(row + 1, column_from_end - 1, 1, -1, blockers, enemies)
            \cup Ray(row - 1, column_from_end + 1, -1, 1, blockers, enemies)
            \cup Ray(row - 1, column_from_end - 1, -1, -1, blockers, enemies)

\* rook(): as bishop().  On an empty bitboard a release build runs the
\* second loop over moving_row = 2^29-2 down to 0 with the shift amount
\* (moving_row*8 + 7) wrapping (u32) and masked to 6 bits, i.e. cyclically
\* over 55, 47, ..., 7, 63 (one period decides the loop), and the fourth
\* loop over 62, ..., 56.
rook(starting_position, blockers, enemies) ==
    IF starting_position = {}
    THEN RaySeq(<<55, 47, 39, 31, 23, 15, 7, 63>>, 1, blockers, enemies)
         \cup RaySeq(<<62, 61, 60, 59, 58, 57, 56>>, 1, blockers, enemies)
    ELSE LET offset == HighestBit(starting_position)
             row == offset \div 8
             column_from_end == offset % 8
         IN Ray(row + 1, column_from_end, 1, 0, blockers, enemies)
            \cup Ray(row - 1, column_from_end, -1, 0, blockers, enemies)
            \cup Ray(row, column_from_end + 1, 0, 1, blockers, enemies)
            \cup Ray(row, column_from_end - 1, 0, -1, blockers, enemies)

queen(starting_position, blockers, enemies) ==
    rook(starting_position, blockers, enemies)
    \cup bishop(starting_position, blockers, enemies)

(***************************************************************************)
(* components/position.rs, types/board.rs: the position (twelve bitboards) *)
(***************************************************************************)
AllSquaresSeq == [i \in 1..64 |-> i - 1]

\* single_squares(): the set bits, lowest first.
single_squares(S) == SelectSeq(AllSquaresSeq, LAMBDA s : s \in S)

\* BBPosition::empty / Bitboards::empty
empty_position == [p \in Pieces |-> {}]

RECURSIVE SumCard(_, _)
SumCard(pos, ps) ==
    IF ps = {} THEN 0
    ELSE LET p == CHOOSE x \in ps : TRUE
         IN Cardinality(pos[p]) + SumCard(pos, ps \ {p})

\* Binary addition of the bitboards (u64, wrapping), bit i with its carry.
RECURSIVE RippleSum(_, _, _, _)
RippleSum(pos, ps, i, carry) ==
    IF i > 63 THEN {}
    ELSE LET t == carry + Cardinality({p \in ps : i \in pos[p]})
         IN (IF t % 2 = 1 THEN {i} ELSE {})
            \cup RippleSum(pos, ps, i + 1, t \div 2)

\* The code adds the bitboards (`.sum()`); the sum is their union exactly
\* when no bit is set in two of them.
SumBits(pos, ps) ==
    LET u == UNION {pos[p] : p \in ps}
    IN IF Cardinality(u) = SumCard(pos, ps) THEN u
       ELSE RippleSum(pos, ps, 0, 0)

occupied_cells(pos) == SumBits(pos, Pieces)

occupied_by(pos, c) == SumBits(pos, PiecesOf(c))

RECURSIVE PieceAtFrom(_, _, _)
PieceAtFrom(pos, sq, i) ==
    IF i > 12 THEN "None"
    ELSE IF sq \in pos[PieceOrder[i]] THEN PieceOrder[i]
    ELSE PieceAtFrom(pos, sq, i + 1)

\* piece_at / get_piece_in_square: the first bitboard holding the square.
piece_at(pos, sq) == PieceAtFrom(pos, sq, 1)

\* The movement pattern of a piece kind (Piece::get_moves_generator).
moves_generator(piece, starting_position, blockers, enemies) ==
    CASE piece = "P" -> white_pawn(starting_position, blockers, enemies)
      [] piece = "p" -> black_pawn(starting_position, blockers, enemies)
      [] piece \in {"N", "n"} -> knight(starting_position, blockers, enemies)
      [] piece \in {"B", "b"} -> bishop(starting_position, blockers, enemies)
      [] piece \in {"R", "r"} -> rook(starting_position, blockers, enemies)
      [] piece \in {"Q", "q"} -> queen(starting_position, blockers, enemies)
      [] OTHER -> king(starting_position, blockers, enemies)

\* Piece::get_attacks_generator
attacks_generator(piece, starting_position, blockers, enemies) ==
    CASE piece = "P" -> white_pawn_attack(starting_position, blockers, enemies)
      [] piece = "p" -> black_pawn_attack(starting_position, blockers, enemies)
      [] OTHER -> moves_generator(piece, starting_position, blockers, enemies)

\* BBPosition::attacks: called with the whole bitboard of a piece kind.
attacks(pos, piece, piece_position) ==
    LET our_squares == occupied_by(pos, color_of(piece))
        enemies == occupied_by(pos, other(color_of(piece)))
    IN CASE piece = "P" -> white_pawn_attack(piece_position, {}, Squares)
         [] piece = "p" -> black_pawn_attack(piece_position, {}, Squares)
         [] OTHER -> moves_generator(piece, piece_position, our_squares, enemies)

\* BBPosition::available_moves
available_moves(pos, piece, piece_position_left_shift) ==
    LET occupied == occupied_cells(pos)
        our_squares == occupied_by(pos, color_of(piece))
        enemies == occupied_by(pos, other(color_of(piece)))
        piece_position == {piece_position_left_shift}
    IN IF kind_of(piece) = "Pawn"
       THEN moves_generator(piece, piece_position, occupied \cup enemies, enemies)
       ELSE moves_generator(piece, piece_position, our_squares, enemies)

\* BBPosition::attacked_squares (components): one attacks() call per piece
\* kind, with all the pieces of that kind at once.
attacked_squares_bb(pos, color) ==
    UNION {attacks(pos, p, pos[p]) : p \in PiecesOf(color)}

\* Bitboards::attacked_squares (types): one generator call per piece,
\* each on its own single-square bitboard.
attacked_squares_hm(pos, side) ==
    LET ours == occupied_by(pos, side)
        theirs == occupied_by(pos, other(side))
        occ == occupied_cells(pos)
    IN UNION {UNION {IF kind_of(p) = "Pawn"
                     THEN attacks_generator(p, {s}, occ, Squares)
                     ELSE attacks_generator(p, {s}, ours, theirs) : s \in pos[p]}
              : p \in PiecesOf(side)}

attacked_squares(impl, pos, side) ==
    IF impl = "components" THEN attacked_squares_bb(pos, side)
    ELSE attacked_squares_hm(pos, side)

\* In a debug build bishop()/rook()/queen() panic on an empty bitboard
\* (`63 - leading_zeros()` underflows); BBPosition::attacks passes the
\* bitboard of every piece kind of the colour, empty or not.
SliderPanics(pos, color) ==
    \E k \in {"Bishop", "Rook", "Queen"} : pos[Piece(color, k)] = {}

is_in_check(impl, pos, side) ==
    pos[Piece(side, "King")] \cap attacked_squares(impl, pos, other(side)) # {}

(***************************************************************************)
(* moves: Move { piece, action }, action one of Standard { from, to },     *)
(* Castle(side), Promote { from, to, to_piece }                            *)
(***************************************************************************)
Standard(piece, from, to) ==
    [piece |-> piece, action |-> "Standard", from |-> from, to |-> to,
     to_piece |-> "None", side |-> "None"]

Castle(piece, side) ==
    [piece |-> piece, action |-> "Castle", from |-> -1, to |-> -1,
     to_piece |-> "None", side |-> side]

Promote(piece, from, to, to_piece) ==
    [piece |-> piece, action |-> "Promote", from |-> from, to |-> to,
     to_piece |-> to_piece, side |-> "None"]

\* castle::bitboards_after_castling / generator::bitboards_after_castling
bitboards_after_castling(current_bitboards, turn, side) ==
    LET king_p == Piece(turn, "King")
        rook_p == Piece(turn, "Rook")
        king_to == CASE turn = "White" /\ side = "King" -> 1
                     [] turn = "White" /\ side = "Queen" -> 5
                     [] turn = "Black" /\ side = "King" -> 57
                     [] OTHER -> 61
        rook_from == CASE turn = "White" /\ side = "King" -> 0
                       [] turn = "White" /\ side = "Queen" -> 7
                       [] turn = "Black" /\ side = "King" -> 56
                       [] OTHER -> 63
        rook_to == CASE turn = "White" /\ side = "King" -> 2
                     [] turn = "White" /\ side = "Queen" -> 4
                     [] turn = "Black" /\ side = "King" -> 58
                     [] OTHER -> 60
    IN [current_bitboards EXCEPT
          ![king_p] = {king_to},
          ![rook_p] = (@ \ {rook_from}) \cup {rook_to}]

\* The transition without the removal of the captured piece.
inner_make_unchecked_move_keeping_captured(pos, player_move) ==
    CASE player_move.action = "Standard" ->
           [pos EXCEPT ![player_move.piece] =
                (@ \ {player_move.from}) \cup {player_move.to}]
      [] player_move.action = "Castle" ->
           bitboards_after_castling(pos, color_of(player_move.piece), player_move.side)
      [] OTHER ->
           [pos EXCEPT ![player_move.piece] = @ \ {player_move.from},
                       ![Piece(color_of(player_move.piece), player_move.to_piece)] =
                           @ \cup {player_move.to}]

\* BBPosition::inner_make_unchecked_move / Bitboards::make_unchecked_move
inner_make_unchecked_move(pos, player_move) ==
    CASE player_move.action = "Standard" ->
           LET moved == [pos EXCEPT ![player_move.piece] =
                             (@ \ {player_move.from}) \cup {player_move.to}]
               oc == piece_at(pos, player_move.to)
           IN IF oc = "None" THEN moved
              ELSE [moved EXCEPT ![oc] = @ \ {player_move.to}]
      [] player_move.action = "Castle" ->
           bitboards_after_castling(pos, color_of(player_move.piece), player_move.side)
      [] OTHER ->
           LET lifted == [pos EXCEPT ![player_move.piece] = @ \ {player_move.from}]
               np == Piece(color_of(player_move.piece), player_move.to_piece)
               placed == [lifted EXCEPT ![np] = @ \cup {player_move.to}]
               oc == piece_at(pos, player_move.to)
           IN IF oc = "None" THEN placed
              ELSE [placed EXCEPT ![oc] = @ \ {player_move.to}]

\* The target computed without the file masks on the neighbour squares.
calculate_en_passant_target_wrapping(pos, player_move) ==
    IF player_move.action # "Standard" THEN {}
    ELSE IF kind_of(player_move.piece) # "Pawn" THEN {}
    ELSE IF Shl({player_move.from}, 16) # {player_move.to}
            /\ Shr({player_move.from}, 16) # {player_move.to} THEN {}
    ELSE LET to == {player_move.to}
             possible_en_passant_doer == Shl(to, 1) \cup Shr(to, 1)
         IN IF color_of(player_move.piece) = "White"
            THEN (IF possible_en_passant_doer \cap pos["p"] # {}
                  THEN Shr(to, 8) ELSE {})
            ELSE (IF possible_en_passant_doer \cap pos["P"] # {}
                  THEN Shl(to, 8) ELSE {})

\* calculate_en_passant_target
calculate_en_passant_target(pos, player_move) ==
    IF player_move.action # "Standard" THEN {}
    ELSE IF kind_of(player_move.piece) # "Pawn" THEN {}
    ELSE IF Shl({player_move.from}, 16) # {player_move.to}
            /\ Shr({player_move.from}, 16) # {player_move.to} THEN {}
    ELSE LET to == {player_move.to}
             possible_en_passant_doer ==
                 (Shl(to, 1) \cap NOT_H_RANK) \cup (Shr(to, 1) \cap NOT_A_RANK)
         IN IF color_of(player_move.piece) = "White"
            THEN (IF possible_en_passant_doer \cap pos["p"] # {}
                  THEN Shr(to, 8) ELSE {})
            ELSE (IF possible_en_passant_doer \cap pos["P"] # {}
                  THEN Shl(to, 8) ELSE {})

(***************************************************************************)
(* components/board.rs, types/board.rs: the board and its transition       *)
(***************************************************************************)
CastleValues == {"No", "King", "Queen", "Both"}

NewBoard(position, turn, en_passant_target, white_can_castle, black_can_castle, reps_50, moves_count) ==
    [position |-> position, turn |-> turn,
     en_passant_target |-> en_passant_target,
     white_can_castle |-> white_can_castle,
     black_can_castle |-> black_can_castle,
     reps_50 |-> reps_50, moves_count |-> moves_count]

\* The rook squares named at the top of calculate_castling_rights, as bit
\* indices: types/board.rs writes them as one-bit masks (bits 7, 0, 63, 56),
\* components/board.rs as the numbers 56, 63, 0, 7.
white_queen_rook(impl) == IF impl = "components" THEN 56 ELSE 7

white_king_rook(impl) == IF impl = "components" THEN 63 ELSE 0

black_queen_rook(impl) == IF impl = "components" THEN 0 ELSE 63

black_king_rook(impl) == IF impl = "components" THEN 7 ELSE 56

\* The arm for the mover's own rook: (rights, Standard { from, .. }).  A rook
\* never carries another action (the arm `_ => unreachable!()`).
RightsAfterRookMove(can_castle, from, king_rook, queen_rook) ==
    CASE can_castle = "No" -> "No"
      [] can_castle = "King" -> IF from = king_rook THEN "No" ELSE "King"
      [] can_castle = "Queen" -> IF from = queen_rook THEN "No" ELSE "Queen"
      [] OTHER -> IF from = king_rook THEN "Queen"
                  ELSE IF from = queen_rook THEN "King"
                  ELSE "Both"

\* A recompute that hands the rights back after a move of the other colour.
RightsAfterEnemyMove_restoring(can_castle, action, to, king_rook, queen_rook) ==
    "Both"

\* The arm for a move of the other colour: (rights, Standard | Promote
\* { to, .. }); a Castle action falls to `_ => rights`.
RightsAfterEnemyMove(can_castle, action, to, king_rook, queen_rook) ==
    IF can_castle = "No" THEN "No"
    ELSE IF action = "Castle" THEN can_castle
    ELSE CASE can_castle = "King" -> IF to = king_rook THEN "No" ELSE "King"
           [] can_castle = "Queen" -> IF to = queen_rook THEN "No" ELSE "Queen"
           [] OTHER -> IF to = king_rook THEN "Queen"
                       ELSE IF to = queen_rook THEN "King"
                       ELSE "Both"

\* Board::calculate_castling_rights: <<white_can_castle, black_can_castle>>
calculate_castling_rights(impl, board, player_move) ==
    LET c == color_of(player_move.piece)
        k == kind_of(player_move.piece)
        white ==
            CASE c = "White" /\ k = "King" -> "No"
              [] c = "White" /\ k = "Rook" ->
                   RightsAfterRookMove(board.white_can_castle, player_move.from,
                                       white_king_rook(impl), white_queen_rook(impl))
              [] c = "Black" ->
                   RightsAfterEnemyMove(board.white_can_castle, player_move.action,
                                        player_move.to,
                                        white_king_rook(impl), white_queen_rook(impl))
              [] OTHER -> board.white_can_castle
        black ==
            CASE c = "Black" /\ k = "King" -> "No"
              [] c = "Black" /\ k = "Rook" ->
                   RightsAfterRookMove(board.black_can_castle, player_move.from,
                                       black_king_rook(impl), black_queen_rook(impl))
              [] c = "White" ->
                   RightsAfterEnemyMove(board.black_can_castle, player_move.action,
                                        player_move.to,
                                        black_king_rook(impl), black_queen_rook(impl))
              [] OTHER -> board.black_can_castle
    IN <<white, black>>

\* Board::reset_50_moves
reset_50_moves(board, player_move) ==
    IF player_move.action = "Standard"
    THEN kind_of(player_move.piece) = "Pawn"
         \/ player_move.to \in occupied_cells(board.position)
    ELSE FALSE

\* reps_50 is a u8
U8 == 256

\* i32::MAX and i32::MIN, the scores of the two mates.
I32_MAX == 2147483647

I32_MIN == -I32_MAX - 1

\* Board::make_unchecked_move
make_unchecked_move(impl, board, player_move) ==
    LET rights == calculate_castling_rights(impl, board, player_move)
    IN NewBoard(inner_make_unchecked_move(board.position, player_move),
                other(board.turn),
                calculate_en_passant_target(board.position, player_move),
                rights[1], rights[2],
                IF reset_50_moves(board, player_move) THEN 0
                ELSE (board.reps_50 + 1) % U8,
                board.moves_count + 1)

(***************************************************************************)
(* Castling availability: components/castle.rs, moves/generator.rs         *)
(***************************************************************************)
\* The squares that must not be attacked (the 0b...1110 / 0b...111000
\* literals, shifted to the eighth row for Black).
CastleAttackedMask(turn, side) ==
    CASE turn = "White" /\ side = "King" -> {1, 2, 3}
      [] turn = "White" /\ side = "Queen" -> {3, 4, 5}
      [] turn = "Black" /\ side = "King" -> {57, 58, 59}
      [] OTHER -> {59, 60, 61}

\* The squares that must be empty (0b...0110 / 0b...01110000).
CastleOccupiedMask(turn, side) ==
    CASE turn = "White" /\ side = "King" -> {1, 2}
      [] turn = "White" /\ side = "Queen" -> {4, 5, 6}
      [] turn = "Black" /\ side = "King" -> {57, 58}
      [] OTHER -> {60, 61, 62}

\* One single-side arm of the match.
CastleArm(impl, board, side) ==
    IF attacked_squares(impl, board.position, other(board.turn))
           \cap CastleAttackedMask(board.turn, side) # {}
       \/ occupied_cells(board.position)
           \cap CastleOccupiedMask(board.turn, side) # {}
    THEN <<>>
    ELSE <<Castle(Piece(board.turn, "King"), side)>>

\* inner_castling_moves / available_castling_moves: king side first.
inner_castling_moves(impl, board, white_can_castle, black_can_castle) ==
    LET can == IF board.turn = "White" THEN white_can_castle ELSE black_can_castle
    IN CASE can = "King" -> CastleArm(impl, board, "King")
         [] can = "Queen" -> CastleArm(impl, board, "Queen")
         [] can = "Both" -> CastleArm(impl, board, "King")
                            \o CastleArm(impl, board, "Queen")
         [] OTHER -> <<>>

castling_moves(impl, board) ==
    inner_castling_moves(impl, board, board.white_can_castle, board.black_can_castle)

(***************************************************************************)
(* Move generation: moves/generate.rs (components), moves/generator.rs     *)
(* (types)                                                                 *)
(***************************************************************************)
RECURSIVE ConcatAll(_, _)
ConcatAll(ss, i) == IF i > Len(ss) THEN <<>> ELSE ss[i] \o ConcatAll(ss, i + 1)

\* The three nested loops: pieces of the side to move in iteration order,
\* their squares lowest first, the target squares lowest first.
MovesFrom(board, piece, piece_position) ==
    LET tos == single_squares(available_moves(board.position, piece, piece_position))
    IN [i \in 1..Len(tos) |-> Standard(piece, piece_position, tos[i])]

MovesOf(board, piece) ==
    LET froms == single_squares(board.position[piece])
    IN ConcatAll([j \in 1..Len(froms) |-> MovesFrom(board, piece, froms[j])], 1)

PseudoMoves(board, order) ==
    ConcatAll([i \in 1..Len(order) |->
                  IF color_of(order[i]) = board.turn
                  THEN MovesOf(board, order[i]) ELSE <<>>], 1)

\* "discard illegal moves": the mover's king is not in check afterwards.
NotSuicide(impl, board, current_move) ==
    ~is_in_check(impl, inner_make_unchecked_move(board.position, current_move),
                 color_of(current_move.piece))

LegalStandard(impl, board, order) ==
    SelectSeq(PseudoMoves(board, order),
              LAMBDA m : NotSuicide(impl, board, m))

\* Move::is_promotion
is_promotion(m) ==
    CASE m.action = "Standard" ->
           kind_of(m.piece) = "Pawn" /\ (m.to \in EIGHT_ROW \/ m.to \in FIRST_ROW)
      [] m.action = "Castle" -> FALSE
      [] OTHER -> TRUE

\* Move::is_capture
is_capture(m, position) ==
    IF m.action = "Castle" THEN FALSE
    ELSE m.to \in occupied_by(position, other(color_of(m.piece)))

\* The four promotions of a pawn move, in PieceKind::iter() order.
Promotions(m) ==
    [i \in 1..4 |-> Promote(m.piece, m.from, m.to, Kinds[i + 1])]

\* Board::generate_moves (components): the moves in the order they are
\* pushed.
generate_moves(board, only_critical) ==
    LET legal == LegalStandard("components", board, PieceOrder)
        in_check == is_in_check("components", board.position, board.turn)
        emit(m) == IF is_promotion(m) /\ ~only_critical THEN Promotions(m)
                   ELSE IF is_capture(m, board.position) \/ in_check THEN <<m>>
                   ELSE IF ~only_critical THEN <<m>>
                   ELSE <<>>
    IN ConcatAll([i \in 1..Len(legal) |-> emit(legal[i])], 1)
       \o (IF ~in_check /\ ~only_critical
           THEN castling_moves("components", board) ELSE <<>>)

\* Insertion of x into a list sorted by descending rating, after the
\* entries rated at least as high (sort_by_key is stable).
InsertRated(sorted, x) ==
    LET k == Cardinality({i \in 1..Len(sorted) : sorted[i].rating >= x.rating})
    IN SubSeq(sorted, 1, k) \o <<x>> \o SubSeq(sorted, k + 1, Len(sorted))

RECURSIVE SortRated(_, _)
\* sort_by_key(|(_, rating)| Reverse(*rating)) of the first n entries
SortRated(rated, n) ==
    IF n = 0 THEN <<>> ELSE InsertRated(SortRated(rated, n - 1), rated[n])

RECURSIVE SumValues(_, _)
SumValues(position, squares) ==
    IF squares = {} THEN 0
    ELSE LET sq == CHOOSE x \in squares : TRUE
         IN value(kind_of(piece_at(position, sq)))
            + SumValues(position, squares \ {sq})

\* The vector a legal move is pushed to, and its rating there
\* (generator.rs, the if / else-if chain inside the loops).
Classify(board, only_critical, current_pv, current_move) ==
    LET side == board.turn
        piece == current_move.piece
        our_squares == occupied_by(board.position, side)
        opponent_squares == occupied_by(board.position, other(side))
        attacked_from_target ==
            IF kind_of(piece) = "Pawn"
            THEN moves_generator(piece, {current_move.to},
                                 occupied_cells(board.position), opponent_squares)
            ELSE moves_generator(piece, {current_move.to},
                                 our_squares, opponent_squares)
    IN IF (\E i \in 1..Len(current_pv) : current_pv[i] = current_move)
          /\ ~only_critical
       THEN [m |-> current_move, class |-> "possible_best", rating |-> 0]
       ELSE IF is_in_check("types", board.position, side)
       THEN [m |-> current_move, class |-> "stop_checks", rating |-> 0]
       ELSE IF kind_of(piece) = "Pawn"
               /\ (current_move.to \in EIGHT_ROW \/ current_move.to \in FIRST_ROW)
               /\ ~only_critical
       THEN [m |-> current_move, class |-> "promotions", rating |-> 0]
       ELSE IF is_in_check("types", board.position, other(side)) /\ ~only_critical
       THEN [m |-> current_move, class |-> "checks", rating |-> 0]
       ELSE IF current_move.to \in opponent_squares
       THEN [m |-> current_move, class |-> "captures",
             rating |-> value(kind_of(piece_at(board.position, current_move.to)))
                        - value(kind_of(piece))]
       ELSE [m |-> current_move, class |-> "quiet_moves",
             rating |-> SumValues(board.position,
                                  attacked_from_target \cap opponent_squares)]

\* generate_moves_ordered (types).  order is the iteration order of the
\* hashmap of bitboards, which the program does not fix.
generate_moves_ordered(board, only_critical, current_pv, order) ==
    LET legal == LegalStandard("types", board, order)
        classified == [i \in 1..Len(legal) |->
                          Classify(board, only_critical, current_pv, legal[i])]
        bucket(c) == SelectSeq(classified, LAMBDA e : e.class = c)
        plain(es) == [i \in 1..Len(es) |-> es[i].m]
        promos == bucket("promotions")
        captures == SortRated(bucket("captures"), Len(bucket("captures")))
        quiet_moves == SortRated(bucket("quiet_moves"), Len(bucket("quiet_moves")))
    IN IF only_critical
       THEN plain(bucket("stop_checks")) \o plain(captures)
       ELSE plain(bucket("possible_best"))
            \o plain(bucket("stop_checks"))
            \o ConcatAll([i \in 1..Len(promos) |-> Promotions(promos[i].m)], 1)
            \o plain(bucket("checks"))
            \o plain(captures)
            \o castling_moves("types", board)
            \o plain(quiet_moves)

\* The list the running generation returns.
Generated(impl, board, only_critical, current_pv, order) ==
    IF impl = "components" THEN generate_moves(board, only_critical)
    ELSE generate_moves_ordered(board, only_critical, current_pv, order)

(***************************************************************************)
(* Position parsing                                                        *)
(***************************************************************************)
\* char::to_digit(10)
to_digit ==
    [c \in {"0", "1", "2", "3", "4", "5", "6", "7", "8", "9"} |->
        CASE c = "0" -> 0 [] c = "1" -> 1 [] c = "2" -> 2 [] c = "3" -> 3
          [] c = "4" -> 4 [] c = "5" -> 5 [] c = "6" -> 6 [] c = "7" -> 7
          [] c = "8" -> 8 [] OTHER -> 9]

RECURSIVE FenFrom(_, _, _, _)
FenFrom(t, i, index, bb) ==
    IF i > Len(t) THEN bb
    ELSE IF t[i] \in DOMAIN to_digit
    THEN FenFrom(t, i + 1, index - to_digit[t[i]], bb)
    ELSE FenFrom(t, i + 1, index - 1, [bb EXCEPT ![t[i]] = @ \cup {index}])

\* BBPosition::from_fen_notation on a well-formed placement field, given
\* as the sequence of its characters with the "/" already removed.
from_fen_notation(t) == FenFrom(t, 1, 63, empty_position)

(***************************************************************************)
(* The state machine: a game played with generated moves                   *)
(***************************************************************************)
VARIABLES impl, build, board, prev, last, offered, mode, ply, panicked, perft, search, par, parse

vars == <<impl, build, board, prev, last, offered, mode, ply, panicked, perft,
          search, par, parse>>

\* The number of moves played in a run.
MaxPly == 2

NoMove == Standard("K", -1, -1)

\* "rnbqkbnr/pppppppp/8/8/8/8/PPPPPPPP/RNBQKBNR w KQkq - 0 1"
StartBoard ==
    NewBoard(from_fen_notation(
        <<"r", "n", "b", "q", "k", "b", "n", "r", "p", "p", "p",
          "p", "p", "p", "p", "p", "8", "8", "8", "8", "P", "P",
          "P", "P", "P", "P", "P", "P", "R", "N", "B", "Q", "K",
          "B", "N", "R">>),
        "White", {}, "Both", "Both", 0, 1)

\* "r3k2r/8/8/8/8/8/8/R3K2R w KQkq - 0 1"
CastleBoard ==
    NewBoard(from_fen_notation(
        <<"r", "3", "k", "2", "r", "8", "8", "8", "8", "8", "8",
          "R", "3", "K", "2", "R">>),
        "White", {}, "Both", "Both", 0, 1)

\* "1n2k3/P7/8/8/8/8/p7/1N2K3 w - - 5 40"
PromoteBoard ==
    NewBoard(from_fen_notation(
        <<"1", "n", "2", "k", "3", "P", "7", "8", "8", "8", "8",
          "p", "7", "1", "N", "2", "K", "3">>),
        "White", {}, "No", "No", 5, 40)

\* "4r3/3P2k1/8/8/8/8/8/4K3 w - - 3 30"
CheckedPromoteBoard ==
    NewBoard(from_fen_notation(
        <<"4", "r", "3", "3", "P", "2", "k", "1", "8", "8", "8",
          "8", "8", "4", "K", "3">>),
        "White", {}, "No", "No", 3, 30)

\* "4k3/5p1p/8/4P3/P1p5/p7/1P5P/4K3 w - - 0 20"
PawnBoard ==
    NewBoard(from_fen_notation(
        <<"4", "k", "3", "5", "p", "1", "p", "8", "4", "P", "3",
          "P", "1", "p", "5", "p", "7", "1", "P", "5", "P", "4",
          "K", "3">>),
        "White", {}, "No", "No", 0, 20)

\* "rnbqk2r/ppppp1pp/8/8/8/8/PPPPP1PP/RNBQ1RK1 b kq - 0 6"
TwoRooksBoard ==
    NewBoard(from_fen_notation(
        <<"r", "n", "b", "q", "k", "2", "r", "p", "p", "p", "p",
          "p", "1", "p", "p", "8", "8", "8", "8", "P", "P", "P", "P",
          "P", "1", "P", "P", "R", "N", "B", "Q", "1", "R", "K", "1">>),
        "Black", {}, "No", "Both", 0, 6)

\* "6k1/5ppp/8/8/8/8/8/R3K3 w - - 0 1": Ra1-a8 mates Black.
WhiteMatesBoard ==
    NewBoard(from_fen_notation(
        <<"6", "k", "1", "5", "p", "p", "p", "8", "8", "8", "8", "8",
          "R", "3", "K", "3">>),
        "White", {}, "No", "No", 0, 1)

\* "r3k3/8/8/8/8/8/5PPP/6K1 b - - 0 1": Ra8-a1 mates White.
BlackMatesBoard ==
    NewBoard(from_fen_notation(
        <<"r", "3", "k", "3", "8", "8", "8", "8", "8", "5", "P", "P", "P",
          "6", "K", "1">>),
        "Black", {}, "No", "No", 0, 1)

\* "7k/8/8/5Q2/8/8/8/K7 w - - 0 1": Qf5-f7 stalemates Black.
WhiteStalematesBoard ==
    NewBoard(from_fen_notation(
        <<"7", "k", "8", "8", "5", "Q", "2", "8", "8", "8", "K", "7">>),
        "White", {}, "No", "No", 0, 1)

\* "k7/8/8/8/5q2/8/8/7K b - - 0 1": Qf4-f2 stalemates White.
BlackStalematesBoard ==
    NewBoard(from_fen_notation(
        <<"k", "7", "8", "8", "8", "5", "q", "2", "8", "8", "7", "K">>),
        "Black", {}, "No", "No", 0, 1)

\* The runs: which generation of the engine, which build, which start.
Scenarios ==
    {[impl |-> i, build |-> "release", board |-> b]
        : i \in {"types", "components"},
          b \in {CastleBoard, PromoteBoard, CheckedPromoteBoard, PawnBoard}}
    \cup {[impl |-> "types", build |-> "release", board |-> b]
        : b \in {WhiteMatesBoard, BlackMatesBoard, WhiteStalematesBoard, BlackStalematesBoard}}
    \cup {[impl |-> "components", build |-> "debug", board |-> b]
        : b \in {StartBoard, TwoRooksBoard, CastleBoard}}

\* No parallel root search is under way.
NoPar == [running |-> FALSE]

\* No parse is under way.
NoParse == [kind |-> "none"]

\* No search is under way.
NoSearch == [done |-> FALSE]

\* No move counting is under way.
NoPerft == [stack |-> <<>>, leaves |-> 0]

Init ==
    /\ \E s \in Scenarios :
          /\ impl = s.impl
          /\ build = s.build
          /\ board = s.board
          /\ prev = s.board
    /\ last = NoMove
    /\ offered = <<>>
    /\ mode = "start"
    /\ ply = 0
    /\ panicked = FALSE
    /\ perft = NoPerft
    /\ search = NoSearch
    /\ par = NoPar
    /\ parse = NoParse

\* A debug build of the components generation panics as soon as
\* attacked_squares meets an empty bishop, rook or queen bitboard of the side
\* not to move: in the position itself (generate.rs line 164 always asks
\* is_in_check) or in the position after one of the candidate moves.
GenerationPanicsIn(i, bld, b) ==
    /\ i = "components"
    /\ bld = "debug"
    /\ \/ SliderPanics(b.position, other(b.turn))
       \/ \E pm \in {PseudoMoves(b, PieceOrder)} :
             \E k \in 1..Len(pm) :
                SliderPanics(inner_make_unchecked_move(b.position, pm[k]),
                             other(b.turn))

GenerationPanics(b) == GenerationPanicsIn(impl, build, b)

\* One move of the game: generate the list, take one of its moves, apply it.
\* prev, last, offered and mode remember the board moved from, the move, the
\* list it was taken from and the generation mode.
Play(only_critical) ==
    /\ ~panicked
    /\ ply < MaxPly
    /\ ~GenerationPanics(board)
    /\ \E list \in {Generated(impl, board, only_critical, <<>>, PieceOrder)} :
          /\ offered' = list
          /\ \E i \in 1..Len(list) :
                /\ board' = make_unchecked_move(impl, board, list[i])
                /\ last' = list[i]
    /\ prev' = board
    /\ mode' = IF only_critical THEN "critical" ELSE "full"
    /\ ply' = ply + 1
    /\ UNCHANGED <<impl, build, panicked, perft, search, par, parse>>

\* The head of the search without its two check tests: every empty list is
\* scored as a draw.
no_moves_score_always_draw(i, position) == 0

\* The head of the search at a node (minimax_alpha_beta_pv, lines 24-32):
\* the value returned when the full list is empty.
no_moves_score(i, position) ==
    IF is_in_check(i, position, "White") THEN I32_MIN
    ELSE IF is_in_check(i, position, "Black") THEN I32_MAX
    ELSE 0

\* The search reaches the current board as a node and finds its full list
\* empty.
SearchNoMoves ==
    /\ ~panicked
    /\ ~search.done
    /\ ~GenerationPanics(board)
    /\ Generated(impl, board, FALSE, <<>>, PieceOrder) = <<>>
    /\ search' = [done |-> TRUE, score |-> no_moves_score(impl, board.position)]
    /\ UNCHANGED <<impl, build, board, prev, last, offered, mode, ply, panicked, perft, par, parse>>

PlayFull == Play(FALSE)

PlayCritical == Play(TRUE)

Panic ==
    /\ ~panicked
    /\ ply < MaxPly
    /\ GenerationPanics(board)
    /\ panicked' = TRUE
    /\ UNCHANGED <<impl, build, board, prev, last, offered, mode, ply, perft, search, par, parse>>

Next == PlayFull \/ PlayCritical \/ Panic \/ SearchNoMoves

Spec == Init /\ [][Next]_vars

(***************************************************************************)
(* Counting the positions reached from the starting position: a depth-     *)
(* first walk that generates the full list at every node and applies every *)
(* move of it, three plies deep                                            *)
(***************************************************************************)
\* A node of the walk: its board, its generated list, the next move to try.
Frame(i, b) ==
    [board |-> b, list |-> Generated(i, b, FALSE, <<>>, PieceOrder), next |-> 1]

PerftScenarios ==
    {[impl |-> "types", build |-> "release"],
     [impl |-> "components", build |-> "debug"]}

PerftInit ==
    /\ \E s \in PerftScenarios :
          /\ impl = s.impl
          /\ build = s.build
          /\ panicked = GenerationPanicsIn(s.impl, s.build, StartBoard)
          /\ perft = [stack |-> <<Frame(s.impl, StartBoard)>>, leaves |-> 0]
    /\ board = StartBoard
    /\ prev = StartBoard
    /\ last = NoMove
    /\ offered = <<>>
    /\ mode = "start"
    /\ ply = 0
    /\ search = NoSearch
    /\ par = NoPar
    /\ parse = NoParse

PerftTop == perft.stack[Len(perft.stack)]

PerftAdvanced ==
    [perft.stack EXCEPT ![Len(perft.stack)].next = @ + 1]

\* Apply the next move of a node one or two plies deep and generate the
\* list of the position reached.
PerftDescend ==
    /\ ~panicked
    /\ Len(perft.stack) < 3
    /\ PerftTop.next <= Len(PerftTop.list)
    /\ \E child \in {make_unchecked_move(impl, PerftTop.board,
                                           PerftTop.list[PerftTop.next])} :
          /\ board' = child
          /\ IF GenerationPanics(child)
             THEN panicked' = TRUE /\ perft' = perft
             ELSE /\ panicked' = FALSE
                  /\ perft' = [perft EXCEPT
                                  !.stack = Append(PerftAdvanced, Frame(impl, child))]
    /\ UNCHANGED <<impl, build, prev, last, offered, mode, ply, search, par, parse>>

\* Apply the next move of a node two plies deep: a leaf position.
PerftLeaf ==
    /\ ~panicked
    /\ Len(perft.stack) = 3
    /\ PerftTop.next <= Len(PerftTop.list)
    /\ board' = make_unchecked_move(impl, PerftTop.board,
                                    PerftTop.list[PerftTop.next])
    /\ perft' = [stack |-> PerftAdvanced, leaves |-> perft.leaves + 1]
    /\ UNCHANGED <<impl, build, prev, last, offered, mode, ply, panicked, search, par, parse>>

\* All the moves of a node are done.
PerftReturn ==
    /\ ~panicked
    /\ Len(perft.stack) > 1
    /\ PerftTop.next > Len(PerftTop.list)
    /\ perft' = [perft EXCEPT !.stack = SubSeq(@, 1, Len(@) - 1)]
    /\ UNCHANGED <<impl, build, board, prev, last, offered, mode, ply, panicked, search, par, parse>>

PerftNext == PerftDescend \/ PerftLeaf \/ PerftReturn

PerftSpec == PerftInit /\ [][PerftNext]_vars

PerftDone ==
    /\ Len(perft.stack) = 1
    /\ perft.stack[1].next > Len(perft.stack[1].list)

(***************************************************************************)
(* The search: utils/evaluation.rs (types), evaluator/evaluation.rs         *)
(* (components).  The two files hold the same recursion.  A searched       *)
(* position is a node of a game tree: its static evaluation (white tally   *)
(* minus black tally), whether the side to move is in check, and its full  *)
(* move list in generation order, every move with the position it leads to *)
(* and whether the critical-only generation returns it too.                *)
(***************************************************************************)
Node(current_eval, in_check, moves) == [current_eval |-> current_eval, in_check |-> in_check, moves |-> moves]

Edge(critical, next) == [critical |-> critical, next |-> next]

\* generate_moves(false) and generate_moves(true) of a node.
available_moves_of(node, only_critical) == IF only_critical THEN SelectSeq(node.moves, LAMBDA e : e.critical) ELSE node.moves

\* The value returned for an empty move list: the checks of White, then
\* Black, then the draw.
no_moves_eval(node, turn) ==
    IF node.in_check /\ turn = "White" THEN I32_MIN
    ELSE IF node.in_check /\ turn = "Black" THEN I32_MAX
    ELSE 0

Max(a, b) == IF a >= b THEN a ELSE b

Min(a, b) == IF a <= b THEN a ELSE b

RECURSIVE quiescence_search(_, _, _, _, _, _)
RECURSIVE quiescence_white(_, _, _, _, _, _)
RECURSIVE quiescence_black(_, _, _, _, _, _)
\* The loop of the White arm over the critical moves from index i on.
quiescence_white(list, i, alpha, beta, depth_counter, max_depth) ==
    IF i > Len(list) THEN alpha
    ELSE LET eval == quiescence_search(list[i].next, "Black", alpha, beta, depth_counter + 1, max_depth)
         IN  IF eval >= beta THEN beta
             ELSE quiescence_white(list, i + 1, IF eval > alpha THEN eval ELSE alpha, beta, depth_counter, max_depth)

\* The loop of the Black arm over the critical moves from index i on.
quiescence_black(list, i, alpha, beta, depth_counter, max_depth) ==
    IF i > Len(list) THEN beta
    ELSE LET eval == quiescence_search(list[i].next, "White", alpha, beta, depth_counter + 1, max_depth)
         IN  IF eval <= alpha THEN alpha
             ELSE quiescence_black(list, i + 1, alpha, IF eval < beta THEN eval ELSE beta, depth_counter, max_depth)

quiescence_search(node, turn, alpha, beta, depth_counter, max_depth) ==
    LET current_eval == node.current_eval
    IN  IF current_eval >= beta THEN beta
        ELSE IF depth_counter >= max_depth THEN current_eval
        ELSE LET alpha1 == IF current_eval > alpha THEN current_eval ELSE alpha
                 list == available_moves_of(node, TRUE)
             IN  IF list = <<>> THEN no_moves_eval(node, turn)
                 ELSE IF turn = "White"
                      THEN quiescence_white(list, 1, alpha1, beta, depth_counter, max_depth)
                      ELSE quiescence_black(list, 1, alpha1, beta, depth_counter, max_depth)

RECURSIVE minimax_alpha_beta(_, _, _, _, _, _, _)
RECURSIVE minimax_white(_, _, _, _, _, _, _, _)
RECURSIVE minimax_black(_, _, _, _, _, _, _, _)
\* The loop of the White arm from move i on; max_eval is the best so far.
minimax_white(node, i, depth, max_depth, alpha, beta, depth_counter, max_eval) ==
    IF i > Len(node.moves) THEN max_eval
    ELSE LET inner_eval == minimax_alpha_beta(node.moves[i].next, "Black", depth - 1, max_depth, alpha, beta, depth_counter + 1)
             new_max == Max(max_eval, inner_eval)
             new_alpha == Max(alpha, inner_eval)
         IN  IF new_alpha >= beta THEN new_max
             ELSE minimax_white(node, i + 1, depth, max_depth, new_alpha, beta, depth_counter, new_max)

\* The loop of the Black arm from move i on; min_eval is the best so far.
minimax_black(node, i, depth, max_depth, alpha, beta, depth_counter, min_eval) ==
    IF i > Len(node.moves) THEN min_eval
    ELSE LET inner_eval == minimax_alpha_beta(node.moves[i].next, "White", depth - 1, max_depth, alpha, beta, depth_counter + 1)
             new_min == Min(min_eval, inner_eval)
             new_beta == Min(beta, inner_eval)
         IN  IF alpha >= new_beta THEN new_min
             ELSE minimax_black(node, i + 1, depth, max_depth, alpha, new_beta, depth_counter, new_min)

minimax_alpha_beta(node, turn, depth, max_depth, alpha, beta, depth_counter) ==
    IF available_moves_of(node, FALSE) = <<>> THEN no_moves_eval(node, turn)
    ELSE IF depth <= 0 THEN quiescence_search(node, turn, alpha, beta, depth_counter, max_depth)
    ELSE IF turn = "White"
         THEN minimax_white(node, 1, depth, max_depth, alpha, beta, depth_counter, I32_MIN)
         ELSE minimax_black(node, 1, depth, max_depth, alpha, beta, depth_counter, I32_MAX)

\* The exhaustive minimax over the same move lists: White takes the
\* greatest and Black the least value of all the moves; a position at the
\* horizon is worth what the quiescence search gives it on its own, with
\* the full window.
RECURSIVE exhaustive_minimax(_, _, _, _, _)
RECURSIVE exhaustive_best(_, _, _, _, _, _, _)
exhaustive_best(node, turn, i, depth, max_depth, depth_counter, best) ==
    IF i > Len(node.moves) THEN best
    ELSE LET inner_eval == exhaustive_minimax(node.moves[i].next, other(turn), depth - 1, max_depth, depth_counter + 1)
         IN  exhaustive_best(node, turn, i + 1, depth, max_depth, depth_counter, IF turn = "White" THEN Max(best, inner_eval) ELSE Min(best, inner_eval))

exhaustive_minimax(node, turn, depth, max_depth, depth_counter) ==
    IF available_moves_of(node, FALSE) = <<>> THEN no_moves_eval(node, turn)
    ELSE IF depth <= 0 THEN quiescence_search(node, turn, I32_MIN, I32_MAX, depth_counter, max_depth)
    ELSE exhaustive_best(node, turn, 1, depth, max_depth, depth_counter, IF turn = "White" THEN I32_MIN ELSE I32_MAX)

\* The static evaluations of the searched trees.
Evals == {0, 1, 2}

\* A position below the searched plies; no search reaches it.
Unexplored == Node(0, FALSE, <<>>)

\* The positions two plies from the root: one with quiet moves only, and a
\* checkmated one.
LeafNodes == {Node(e, FALSE, <<Edge(FALSE, Unexplored)>>) : e \in Evals} \cup {Node(0, TRUE, <<>>)}

LeafEdges == {Edge(c, n) : c \in BOOLEAN, n \in LeafNodes}

\* The positions one ply from the root: without moves (mate or stalemate),
\* or with one or two moves; in check every move is critical.
NarrowNodes ==
    {Node(0, c, <<>>) : c \in BOOLEAN}
    \cup {Node(e, FALSE, <<m>>) : e \in Evals, m \in LeafEdges}
    \cup {Node(e, TRUE, <<Edge(TRUE, n)>>) : e \in Evals, n \in LeafNodes}

WideNodes == {Node(e, FALSE, <<m1, m2>>) : e \in Evals, m1 \in LeafEdges, m2 \in LeafEdges}

\* The searched positions: two moves, the first to a narrow node.
SearchRoots == {Node(0, FALSE, <<Edge(FALSE, n1), Edge(FALSE, n2)>>) : n1 \in NarrowNodes, n2 \in NarrowNodes \cup WideNodes}

\* The pairs depth, max_depth a search is started with.
SearchDepths == {<<2, 2>>, <<1, 2>>, <<2, 3>>}

SearchInit ==
    /\ impl \in {"types", "components"}
    /\ build = "release"
    /\ board = StartBoard
    /\ prev = StartBoard
    /\ last = NoMove
    /\ offered = <<>>
    /\ mode = "search"
    /\ ply = 0
    /\ panicked = FALSE
    /\ perft = NoPerft
    /\ par = NoPar
    /\ parse = NoParse
    /\ \E root \in SearchRoots, turn \in Colors, d \in SearchDepths :
          search = [done |-> FALSE, root |-> root, turn |-> turn, depth |-> d[1], max_depth |-> d[2], quiescence |-> <<>>]

\* One search of the root with the full window, and the exhaustive minimax
\* of the same tree.
RunSearch ==
    /\ mode = "search"
    /\ ~search.done
    /\ search.quiescence = <<>>
    /\ search' = [done |-> TRUE, root |-> search.root, turn |-> search.turn, depth |-> search.depth, max_depth |-> search.max_depth, quiescence |-> <<>>, score |-> minimax_alpha_beta(search.root, search.turn, search.depth, search.max_depth, I32_MIN, I32_MAX, 0), exhaustive |-> exhaustive_minimax(search.root, search.turn, search.depth, search.max_depth, 0)]
    /\ UNCHANGED <<impl, build, board, prev, last, offered, mode, ply, panicked, perft, par, parse>>

\* One call of the quiescence search with the full window on a position of
\* the tree, one or two plies below the root, with the ply counter it has
\* there.
RunQuiescence ==
    /\ mode = "search"
    /\ ~search.done
    /\ search.quiescence = <<>>
    /\ \E i \in 1..Len(search.root.moves) :
          LET child == search.root.moves[i].next
          IN  \/ search' = [search EXCEPT !.quiescence = <<[node |-> child, turn |-> other(search.turn), depth_counter |-> 1, value |-> quiescence_search(child, other(search.turn), I32_MIN, I32_MAX, 1, search.max_depth)]>>]
              \/ \E j \in 1..Len(child.moves) :
                    search' = [search EXCEPT !.quiescence = <<[node |-> child.moves[j].next, turn |-> search.turn, depth_counter |-> 2, value |-> quiescence_search(child.moves[j].next, search.turn, I32_MIN, I32_MAX, 2, search.max_depth)]>>]
    /\ UNCHANGED <<impl, build, board, prev, last, offered, mode, ply, panicked, perft, par, parse>>

SearchNext == RunSearch \/ RunQuiescence

SearchSpec == SearchInit /\ [][SearchNext]_vars

(***************************************************************************)
(* The search with its principal variation (utils/evaluation.rs).  A move  *)
(* of the tree is named by the path of list indices that leads to it from  *)
(* the root; current_pv is the vector the caller passes in, and the result *)
(* holds the returned score and the vector as the call leaves it.          *)
(***************************************************************************)
Scored(eval, pv) == [eval |-> eval, pv |-> pv]

RECURSIVE quiescence_search_pv(_, _, _, _, _, _, _, _)
RECURSIVE quiescence_white_pv(_, _, _, _, _, _, _, _, _)
RECURSIVE quiescence_black_pv(_, _, _, _, _, _, _, _, _)
\* The White arm from the critical move i on.  An early return leaves
\* current_pv as it was passed in.
quiescence_white_pv(node, path, i, alpha, beta, depth_counter, max_depth, current_pv, local_pv) ==
    LET idx == {j \in 1..Len(node.moves) : node.moves[j].critical}
        rest == {j \in idx : j >= i}
    IN  IF rest = {} THEN Scored(alpha, local_pv)
        ELSE LET j == CHOOSE x \in rest : \A y \in rest : x <= y
                 r == quiescence_search_pv(node.moves[j].next, Append(path, j), "Black", alpha, beta, depth_counter + 1, max_depth, <<>>)
             IN  IF r.eval >= beta THEN Scored(beta, current_pv)
                 ELSE IF r.eval > alpha
                 THEN quiescence_white_pv(node, path, j + 1, r.eval, beta, depth_counter, max_depth, current_pv, <<Append(path, j)>> \o r.pv)
                 ELSE quiescence_white_pv(node, path, j + 1, alpha, beta, depth_counter, max_depth, current_pv, local_pv)

quiescence_black_pv(node, path, i, alpha, beta, depth_counter, max_depth, current_pv, local_pv) ==
    LET idx == {j \in 1..Len(node.moves) : node.moves[j].critical}
        rest == {j \in idx : j >= i}
    IN  IF rest = {} THEN Scored(beta, local_pv)
        ELSE LET j == CHOOSE x \in rest : \A y \in rest : x <= y
                 r == quiescence_search_pv(node.moves[j].next, Append(path, j), "White", alpha, beta, depth_counter + 1, max_depth, <<>>)
             IN  IF r.eval <= alpha THEN Scored(alpha, current_pv)
                 ELSE IF r.eval < beta
                 THEN quiescence_black_pv(node, path, j + 1, alpha, r.eval, depth_counter, max_depth, current_pv, <<Append(path, j)>> \o r.pv)
                 ELSE quiescence_black_pv(node, path, j + 1, alpha, beta, depth_counter, max_depth, current_pv, local_pv)

quiescence_search_pv(node, path, turn, alpha, beta, depth_counter, max_depth, current_pv) ==
    LET current_eval == node.current_eval
    IN  IF current_eval >= beta THEN Scored(beta, current_pv)
        ELSE IF depth_counter >= max_depth THEN Scored(current_eval, current_pv)
        ELSE LET alpha1 == IF current_eval > alpha THEN current_eval ELSE alpha
             IN  IF available_moves_of(node, TRUE) = <<>>
                 THEN Scored(no_moves_eval(node, turn), current_pv)
                 ELSE IF turn = "White"
                      THEN quiescence_white_pv(node, path, 1, alpha1, beta, depth_counter, max_depth, current_pv, <<>>)
                      ELSE quiescence_black_pv(node, path, 1, alpha1, beta, depth_counter, max_depth, current_pv, <<>>)

RECURSIVE minimax_alpha_beta_pv(_, _, _, _, _, _, _, _, _)
RECURSIVE minimax_white_pv(_, _, _, _, _, _, _, _, _, _)
RECURSIVE minimax_black_pv(_, _, _, _, _, _, _, _, _, _)
\* The White arm from move i on: max_eval and local_pv are the best so far.
minimax_white_pv(node, path, i, depth, max_depth, alpha, beta, depth_counter, max_eval, local_pv) ==
    IF i > Len(node.moves) THEN Scored(max_eval, local_pv)
    ELSE LET r == minimax_alpha_beta_pv(node.moves[i].next, Append(path, i), "Black", depth - 1, max_depth, alpha, beta, depth_counter + 1, <<>>)
             better == r.eval > max_eval
             new_max == IF better THEN r.eval ELSE max_eval
             new_pv == IF better THEN <<Append(path, i)>> \o r.pv ELSE local_pv
             new_alpha == Max(alpha, r.eval)
         IN  IF new_alpha >= beta THEN Scored(new_max, new_pv)
             ELSE minimax_white_pv(node, path, i + 1, depth, max_depth, new_alpha, beta, depth_counter, new_max, new_pv)

minimax_black_pv(node, path, i, depth, max_depth, alpha, beta, depth_counter, min_eval, local_pv) ==
    IF i > Len(node.moves) THEN Scored(min_eval, local_pv)
    ELSE LET r == minimax_alpha_beta_pv(node.moves[i].next, Append(path, i), "White", depth - 1, max_depth, alpha, beta, depth_counter + 1, <<>>)
             better == r.eval < min_eval
             new_min == IF better THEN r.eval ELSE min_eval
             new_pv == IF better THEN <<Append(path, i)>> \o r.pv ELSE local_pv
             new_beta == Min(beta, r.eval)
         IN  IF alpha >= new_beta THEN Scored(new_min, new_pv)
             ELSE minimax_black_pv(node, path, i + 1, depth, max_depth, alpha, new_beta, depth_counter, new_min, new_pv)

minimax_alpha_beta_pv(node, path, turn, depth, max_depth, alpha, beta, depth_counter, current_pv) ==
    IF available_moves_of(node, FALSE) = <<>> THEN Scored(no_moves_eval(node, turn), current_pv)
    ELSE IF depth <= 0 THEN quiescence_search_pv(node, path, turn, alpha, beta, depth_counter, max_depth, current_pv)
    ELSE IF turn = "White"
         THEN minimax_white_pv(node, path, 1, depth, max_depth, alpha, beta, depth_counter, I32_MIN, <<>>)
         ELSE minimax_black_pv(node, path, 1, depth, max_depth, alpha, beta, depth_counter, I32_MAX, <<>>)

(***************************************************************************)
(* The parallel root search (parallel_minimax_alpha_beta_pv) and its        *)
(* consumer (main): one worker per root move, run by the thread pool in    *)
(* any interleaving.  Every access of a worker to a shared atomic or to    *)
(* the channel is a step of its own; what a worker computes locally is     *)
(* part of the step before it.                                             *)
(***************************************************************************)
\* A move of an earlier search, not a move of the searched tree.
StaleMove == <<0>>

\* The principal variation passed in: none, or the one a former search left.
ParHints == {<<>>, <<StaleMove>>}

\* The positions after the first root move.
ParFirstNodes ==
    {Node(0, TRUE, <<>>),
     Node(1, FALSE, <<Edge(FALSE, Node(0, FALSE, <<Edge(FALSE, Unexplored)>>))>>),
     Node(0, FALSE, <<Edge(TRUE, Node(1, FALSE, <<Edge(FALSE, Unexplored)>>))>>),
     Node(2, FALSE, <<Edge(TRUE, Node(0, FALSE, <<Edge(FALSE, Unexplored)>>))>>),
     Node(1, TRUE, <<Edge(TRUE, Node(0, TRUE, <<>>))>>)}

\* Positions with two moves: the first to a position with one capture, the
\* second to a quiet position.
DeepNodes ==
    {Node(0, FALSE, <<Edge(FALSE, Node(0, FALSE, <<Edge(TRUE, Node(v, FALSE, <<Edge(FALSE, Unexplored)>>))>>)),
                      Edge(FALSE, Node(e, FALSE, <<Edge(FALSE, Unexplored)>>))>>)
        : v \in Evals, e \in Evals}

\* The searched roots: two moves, hence two workers.
ParRoots == {Node(0, FALSE, <<Edge(FALSE, n1), Edge(FALSE, n2)>>) : n1 \in ParFirstNodes, n2 \in NarrowNodes \cup DeepNodes}

\* The pairs depth, max_depth of a parallel search.
ParDepths == {<<1, 1>>, <<1, 2>>, <<2, 2>>, <<2, 3>>}

\* A worker before its first step.
NewWorker == [pc |-> "start", alpha |-> 0, beta |-> 0, eval |-> 0, pv |-> <<>>, searched |-> FALSE, sent |-> 0, observed |-> FALSE]

\* The state at the start of a parallel search of one of the given roots.
ParInitOver(roots, depths, hints) ==
    /\ impl = "types"
    /\ build = "release"
    /\ board = StartBoard
    /\ prev = StartBoard
    /\ last = NoMove
    /\ offered = <<>>
    /\ mode = "parallel"
    /\ ply = 0
    /\ panicked = FALSE
    /\ perft = NoPerft
    /\ search = NoSearch
    /\ parse = NoParse
    /\ \E root \in roots, turn \in Colors, d \in depths, hint \in hints :
          par = [running |-> TRUE, root |-> root, turn |-> turn,
                 depth |-> d[1], max_depth |-> d[2], current_pv |-> hint,
                 best_eval |-> IF turn = "White" THEN I32_MIN ELSE I32_MAX,
                 main_alpha |-> I32_MIN, main_beta |-> I32_MAX,
                 stop_signal |-> FALSE,
                 worker |-> [i \in 1..Len(root.moves) |-> NewWorker],
                 channel |-> <<>>, tx_dropped |-> FALSE,
                 consumer |-> [best_eval |-> IF turn = "White" THEN I32_MIN ELSE I32_MAX,
                               pv |-> <<>>, finished |-> FALSE]]

ParInit == ParInitOver(ParRoots, ParDepths, ParHints)

\* The roots of the scheduled search: both moves lead to one of the first
\* positions, the mated one among them.
ParLiveRoots == {Node(0, FALSE, <<Edge(FALSE, n1), Edge(FALSE, n2)>>) : n1 \in ParFirstNodes, n2 \in ParFirstNodes}

ParLiveInit == ParInitOver(ParLiveRoots, ParDepths, {<<>>})

Workers == 1..Len(par.root.moves)

\* The worker i takes a step that leaves the shared state alone.
WorkerBecomes(i, w) == par' = [par EXCEPT !.worker[i] = w]

\* A worker that does not look at the stop flag.
WorkerStartWithoutStopCheck(i) ==
    /\ par.worker[i].pc = "start"
    /\ WorkerBecomes(i, [par.worker[i] EXCEPT !.pc = "load_alpha"])

\* stop_signal.load: a worker that finds the flag set returns at once.
WorkerStart(i) ==
    /\ par.worker[i].pc = "start"
    /\ WorkerBecomes(i, [par.worker[i] EXCEPT !.pc = IF par.stop_signal THEN "done" ELSE "load_alpha"])

\* main_alpha.load, the fourth argument of the sub-search.
WorkerLoadAlpha(i) ==
    /\ par.worker[i].pc = "load_alpha"
    /\ WorkerBecomes(i, [par.worker[i] EXCEPT !.pc = "load_beta", !.alpha = par.main_alpha])

\* main_beta.load, the fifth argument, and the sub-search itself.
WorkerSearch(i) ==
    /\ par.worker[i].pc = "load_beta"
    /\ \E r \in {minimax_alpha_beta_pv(par.root.moves[i].next, <<i>>, other(par.turn), par.depth - 1, par.max_depth, par.worker[i].alpha, par.main_beta, 1, par.current_pv)} :
          WorkerBecomes(i, [par.worker[i] EXCEPT !.pc = "fetch", !.beta = par.main_beta, !.eval = r.eval, !.pv = r.pv, !.searched = TRUE])

\* best_eval.fetch_max and main_alpha.fetch_max for White at the root,
\* fetch_min on best_eval and main_beta for Black.  Nothing reads best_eval.
WorkerFetch(i) ==
    /\ par.worker[i].pc = "fetch"
    /\ par' = [par EXCEPT !.worker[i].pc = "send",
                          !.best_eval = IF par.turn = "White" THEN Max(@, par.worker[i].eval) ELSE Min(@, par.worker[i].eval),
                          !.main_alpha = IF par.turn = "White" THEN Max(@, par.worker[i].eval) ELSE @,
                          !.main_beta = IF par.turn = "Black" THEN Min(@, par.worker[i].eval) ELSE @]

\* sender.send((player_move, eval, pv))
WorkerSend(i) ==
    /\ par.worker[i].pc = "send"
    /\ par' = [par EXCEPT !.worker[i].pc = "check_alpha",
                          !.worker[i].sent = @ + 1,
                          !.channel = Append(@, [move |-> <<i>>, eval |-> par.worker[i].eval, pv |-> par.worker[i].pv])]

\* main_alpha.load of the cut test
WorkerCheckAlpha(i) ==
    /\ par.worker[i].pc = "check_alpha"
    /\ WorkerBecomes(i, [par.worker[i] EXCEPT !.pc = "check_beta", !.alpha = par.main_alpha])

\* main_beta.load of the cut test, and the comparison
WorkerCheckBeta(i) ==
    /\ par.worker[i].pc = "check_beta"
    /\ WorkerBecomes(i, [par.worker[i] EXCEPT !.pc = IF par.worker[i].alpha >= par.main_beta THEN "store_stop" ELSE "done",
                                              !.beta = par.main_beta,
                                              !.observed = par.worker[i].alpha >= par.main_beta])

\* stop_signal.store(true)
WorkerStop(i) ==
    /\ par.worker[i].pc = "store_stop"
    /\ par' = [par EXCEPT !.worker[i].pc = "done", !.stop_signal = TRUE]

\* drop(tx) once every worker has returned
DropSender ==
    /\ ~par.tx_dropped
    /\ \A i \in Workers : par.worker[i].pc = "done"
    /\ par' = [par EXCEPT !.tx_dropped = TRUE]

\* One round of the consumer's loop in main: the tuple at the head of the
\* channel is compared with the running best.
ConsumerReceive ==
    /\ par.channel # <<>>
    /\ LET t == Head(par.channel)
           better == IF par.turn = "White" THEN t.eval > par.consumer.best_eval
                     ELSE t.eval < par.consumer.best_eval
       IN  par' = [par EXCEPT !.channel = Tail(@),
                              !.consumer.best_eval = IF better THEN t.eval ELSE @,
                              !.consumer.pv = IF better THEN <<t.move>> \o t.pv ELSE @]

\* rx.iter() ends: the channel is empty and its sender is gone.
ConsumerFinish ==
    /\ par.channel = <<>>
    /\ par.tx_dropped
    /\ ~par.consumer.finished
    /\ par' = [par EXCEPT !.consumer.finished = TRUE]

ParStep ==
    \/ \E i \in Workers :
          \/ WorkerStart(i) \/ WorkerLoadAlpha(i) \/ WorkerSearch(i)
          \/ WorkerFetch(i) \/ WorkerSend(i) \/ WorkerCheckAlpha(i)
          \/ WorkerCheckBeta(i) \/ WorkerStop(i)
    \/ DropSender
    \/ ConsumerReceive
    \/ ConsumerFinish

ParNext ==
    /\ mode = "parallel"
    /\ par.running
    /\ ParStep
    /\ UNCHANGED <<impl, build, board, prev, last, offered, mode, ply, panicked, perft, search, parse>>

ParSpec == ParInit /\ [][ParNext]_vars

\* The same search with its threads scheduled: the rayon workers, the thread
\* that drops the sender and the consumer loop of main each run when they can.
ParLiveSpec == ParLiveInit /\ [][ParNext]_vars /\ WF_vars(ParNext)

(***************************************************************************)
(* The rules of chess the claims are judged by                             *)
(***************************************************************************)
RowOf(sq) == sq \div 8

ColOf(sq) == sq % 8

Abs(n) == IF n < 0 THEN -n ELSE n

Sign(n) == IF n < 0 THEN -1 ELSE IF n > 0 THEN 1 ELSE 0

AllOccupied(position) == UNION {position[p] : p \in Pieces}

\* The squares strictly between two squares of one row, column or diagonal.
SquaresBetween(a, b) ==
    LET dr == Sign(RowOf(b) - RowOf(a))
        dc == Sign(ColOf(b) - ColOf(a))
        n == IF Abs(RowOf(b) - RowOf(a)) > Abs(ColOf(b) - ColOf(a))
             THEN Abs(RowOf(b) - RowOf(a)) ELSE Abs(ColOf(b) - ColOf(a))
    IN {(RowOf(a) + k * dr) * 8 + (ColOf(a) + k * dc) : k \in 1..(n - 1)}

\* A piece p standing on from attacks target by the movement rules.
AttacksByRules(position, p, from, target) ==
    LET dr == RowOf(target) - RowOf(from)
        dc == ColOf(target) - ColOf(from)
        clear == SquaresBetween(from, target) \cap AllOccupied(position) = {}
        straight == (dr = 0) # (dc = 0)
        diagonal == Abs(dr) = Abs(dc) /\ dr # 0
    IN CASE p = "P" -> dr = 1 /\ Abs(dc) = 1
         [] p = "p" -> dr = -1 /\ Abs(dc) = 1
         [] kind_of(p) = "Knight" -> {Abs(dr), Abs(dc)} = {1, 2}
         [] kind_of(p) = "King" ->
              Abs(dr) <= 1 /\ Abs(dc) <= 1 /\ from # target
         [] kind_of(p) = "Bishop" -> diagonal /\ clear
         [] kind_of(p) = "Rook" -> straight /\ clear
         [] OTHER -> (straight \/ diagonal) /\ clear

\* Some piece of colour by attacks the square.
SquareAttackedByRules(position, sq, by) ==
    \E p \in PiecesOf(by) :
        \E from \in position[p] : AttacksByRules(position, p, from, sq)

KingAttackedByRules(position, side) ==
    \E k \in position[Piece(side, "King")] :
        SquareAttackedByRules(position, k, other(side))

Moved == mode \in {"full", "critical"}

(***************************************************************************)
(* C1                                                                      *)
(***************************************************************************)
\* C1: after every generated move (full or critical-only list) is applied,
\* no opposing piece attacks the king of the side that moved.
C1_NoGeneratedMoveLeavesKingAttacked ==
    Moved => ~KingAttackedByRules(board.position, other(board.turn))

\* C1 restricted to the types generation, where every attacker is walked.
C1_TypesGenerationSound ==
    (Moved /\ impl = "types")
        => ~KingAttackedByRules(board.position, other(board.turn))

(***************************************************************************)
(* C2                                                                      *)
(***************************************************************************)
\* C2: in every board reached by generated moves from a parsed position no
\* square is set in two of the twelve bitboards.
C2_BitboardsDisjoint ==
    \A p \in Pieces : \A q \in Pieces \ {p} :
        board.position[p] \cap board.position[q] = {}

\* A promotion that captures has been applied.
C2_Witness ==
    /\ Moved
    /\ last.action = "Promote"
    /\ piece_at(prev.position, last.to) # "None"

(***************************************************************************)
(* C3                                                                      *)
(***************************************************************************)
\* The castling rights without one side.
WithoutSide(rights, side) ==
    CASE rights = "Both" -> IF side = "King" THEN "Queen" ELSE "King"
      [] rights = side -> "No"
      [] OTHER -> rights

\* The rights of colour c after move m by the rules of section 3, with the
\* corners in the numbering of position parsing: h1 = 0, a1 = 7, h8 = 56,
\* a8 = 63.
RightsByRules(rights, c, m) ==
    LET king_corner == IF c = "White" THEN 0 ELSE 56
        queen_corner == IF c = "White" THEN 7 ELSE 63
    IN IF color_of(m.piece) = c
       THEN CASE kind_of(m.piece) = "King" -> "No"
              [] kind_of(m.piece) = "Rook" /\ m.from = king_corner ->
                   WithoutSide(rights, "King")
              [] kind_of(m.piece) = "Rook" /\ m.from = queen_corner ->
                   WithoutSide(rights, "Queen")
              [] OTHER -> rights
       ELSE CASE m.action # "Castle" /\ m.to = king_corner ->
                   WithoutSide(rights, "King")
              [] m.action # "Castle" /\ m.to = queen_corner ->
                   WithoutSide(rights, "Queen")
              [] OTHER -> rights

\* C3: the castling rights after a move are those the rules give: a king
\* move clears the mover's rights, a rook leaving its corner or a move
\* landing on the opponent's corner clears that side, nothing else changes.
C3_CastlingRightsRecomputed ==
    Moved =>
        /\ board.white_can_castle
             = RightsByRules(prev.white_can_castle, "White", last)
        /\ board.black_can_castle
             = RightsByRules(prev.black_can_castle, "Black", last)

(***************************************************************************)
(* C4                                                                      *)
(***************************************************************************)
\* Both > {King, Queen} > No
RightsLeq(a, b) == a = b \/ a = "No" \/ b = "Both"

\* C4: a move never gives a colour a castling right it did not have.
C4_CastlingRightsNeverIncrease ==
    Moved =>
        /\ RightsLeq(board.white_can_castle, prev.white_can_castle)
        /\ RightsLeq(board.black_can_castle, prev.black_can_castle)

\* A right has been lost by a move.
C4_Witness ==
    /\ Moved
    /\ \/ board.white_can_castle # prev.white_can_castle
       \/ board.black_can_castle # prev.black_can_castle

(***************************************************************************)
(* C5                                                                      *)
(***************************************************************************)
\* The squares between the king on its start square and the rook.
BetweenKingAndRook(turn, side) ==
    CASE turn = "White" /\ side = "King" -> {1, 2}
      [] turn = "White" /\ side = "Queen" -> {4, 5, 6}
      [] turn = "Black" /\ side = "King" -> {57, 58}
      [] OTHER -> {60, 61, 62}

\* The king's start, transit and landing squares.
KingPath(turn, side) ==
    CASE turn = "White" /\ side = "King" -> {3, 2, 1}
      [] turn = "White" /\ side = "Queen" -> {3, 4, 5}
      [] turn = "Black" /\ side = "King" -> {59, 58, 57}
      [] OTHER -> {59, 60, 61}

CastlingAllowedByRules(b, side) ==
    /\ (IF b.turn = "White" THEN b.white_can_castle ELSE b.black_can_castle)
           \in {side, "Both"}
    /\ AllOccupied(b.position) \cap BetweenKingAndRook(b.turn, side) = {}
    /\ \A sq \in KingPath(b.turn, side) :
           ~SquareAttackedByRules(b.position, sq, other(b.turn))
    /\ ~KingAttackedByRules(b.position, b.turn)

\* C5: a castling move is in the generated list only if the mover holds the
\* right, the squares between king and rook are empty, no square the king
\* starts on, crosses or lands on is attacked, and the mover is not in check.
C5_CastlingOnlyWhenAllowed ==
    Moved =>
        \A i \in 1..Len(offered) :
            offered[i].action = "Castle"
                => CastlingAllowedByRules(prev, offered[i].side)

(***************************************************************************)
(* C6                                                                      *)
(***************************************************************************)
\* A pawn move (push, capture or promotion) or a capture.
ResetsFiftyMoves(b, m) ==
    \/ kind_of(m.piece) = "Pawn"
    \/ m.action # "Castle" /\ m.to \in AllOccupied(b.position)

\* C6: after a move the fifty-move counter is 0 if the move was a pawn move
\* or a capture, and the previous value plus one otherwise.
C6_FiftyMoveCounter ==
    Moved =>
        board.reps_50 = IF ResetsFiftyMoves(prev, last) THEN 0
                        ELSE prev.reps_50 + 1

(***************************************************************************)
(* C7                                                                      *)
(***************************************************************************)
\* The square jumped over by a two-square pawn advance next to an enemy
\* pawn on the landing rank; empty for every other move.
EnPassantTargetByRules(b, m) ==
    IF /\ m.action = "Standard"
       /\ kind_of(m.piece) = "Pawn"
       /\ Abs(m.to - m.from) = 16
       /\ \E sq \in b.position[Piece(other(color_of(m.piece)), "Pawn")] :
             RowOf(sq) = RowOf(m.to) /\ Abs(ColOf(sq) - ColOf(m.to)) = 1
    THEN {(m.from + m.to) \div 2}
    ELSE {}

\* C7: after a move the en-passant target is the jumped square exactly when
\* the move was a two-square pawn advance landing beside an enemy pawn (no
\* wrap over the board edge), and empty otherwise.
C7_EnPassantTarget ==
    Moved => board.en_passant_target = EnPassantTargetByRules(prev, last)

\* A two-square advance has set a target.
C7_Witness ==
    /\ Moved
    /\ kind_of(last.piece) = "Pawn"
    /\ Abs(last.to - last.from) = 16
    /\ board.en_passant_target = {(last.from + last.to) \div 2}

(***************************************************************************)
(* C8                                                                      *)
(***************************************************************************)
\* The pawn moves of the side to move that land on the farthest rank, as
\* <<from, to>>, by the movement rules.
PromotingPawnMoves(b) ==
    LET dir == IF b.turn = "White" THEN 1 ELSE -1
        pawn == Piece(b.turn, "Pawn")
        enemy == UNION {b.position[p] : p \in PiecesOf(other(b.turn))}
    IN {ft \in b.position[pawn] \X (EIGHT_ROW \cup FIRST_ROW) :
          /\ RowOf(ft[2]) = RowOf(ft[1]) + dir
          /\ \/ ColOf(ft[2]) = ColOf(ft[1]) /\ ft[2] \notin AllOccupied(b.position)
             \/ Abs(ColOf(ft[2]) - ColOf(ft[1])) = 1 /\ ft[2] \in enemy}

\* The position after the pawn went from ft[1] to ft[2], taking what stood
\* there.
AfterPawnMove(b, ft) ==
    [p \in Pieces |->
        IF p = Piece(b.turn, "Pawn") THEN (b.position[p] \ {ft[1]}) \cup {ft[2]}
        ELSE b.position[p] \ {ft[2]}]

LegalPromotingPawnMoves(b) ==
    {ft \in PromotingPawnMoves(b) :
        ~KingAttackedByRules(AfterPawnMove(b, ft), b.turn)}

Count(list, m) == Cardinality({i \in 1..Len(list) : list[i] = m})

\* C8: in full generation every legal pawn move to the farthest rank is in
\* the list as exactly four Promote moves, one per Knight, Bishop, Rook and
\* Queen, and not as a Standard move.
C8_PromotionExpansion ==
    (Moved /\ mode = "full") =>
        \A ft \in LegalPromotingPawnMoves(prev) :
            LET pawn == Piece(prev.turn, "Pawn")
            IN /\ \A k \in {"Knight", "Bishop", "Rook", "Queen"} :
                     Count(offered, Promote(pawn, ft[1], ft[2], k)) = 1
               /\ Count(offered, Standard(pawn, ft[1], ft[2])) = 0

(***************************************************************************)
(* C9                                                                      *)
(***************************************************************************)
\* C9: from the starting position the full list has exactly 20 moves, and
\* generating and applying moves three plies deep reaches exactly 8902 leaf
\* positions.
C9_PerftStartingPosition ==
    perft.stack # <<>> =>
        /\ ~panicked
        /\ Len(perft.stack[1].list) = 20
        /\ PerftDone => perft.leaves = 8902

\* The walk has finished and counted its leaves.
C9_Witness == perft.stack # <<>> /\ PerftDone /\ perft.leaves > 0

(***************************************************************************)
(* C10: for any position and depth, the score of the alpha-beta search     *)
(* started with the full window equals the score of the exhaustive         *)
(* minimax, White maximizing and Black minimizing, over the same move      *)
(* lists and the same leaf values.                                         *)
(***************************************************************************)
C10_AlphaBetaEqualsExhaustive ==
    search.done => search.score = search.exhaustive

(***************************************************************************)
(* C11                                                                     *)
(***************************************************************************)
\* The position after the piece p goes from one square to another, a piece
\* standing there being taken.
AfterByRules(position, p, from, to) ==
    [q \in Pieces |-> IF q = p THEN (position[q] \ {from}) \cup {to}
                      ELSE position[q] \ {to}]

\* The piece p on from may go to the square by the movement rules (en
\* passant and castling apart).
MayGoByRules(position, p, from, to) ==
    LET own == UNION {position[q] : q \in PiecesOf(color_of(p))}
        enemy == UNION {position[q] : q \in PiecesOf(other(color_of(p)))}
        step == IF color_of(p) = "White" THEN 8 ELSE -8
        start_row == IF color_of(p) = "White" THEN 1 ELSE 6
    IN  /\ to \in Squares \ own
        /\ IF kind_of(p) = "Pawn"
           THEN \/ AttacksByRules(position, p, from, to) /\ to \in enemy
                \/ to = from + step /\ to \notin enemy
                \/ /\ to = from + 2 * step
                   /\ RowOf(from) = start_row
                   /\ {from + step, to} \cap (own \cup enemy) = {}
           ELSE AttacksByRules(position, p, from, to)

\* The side to move has a legal move.
HasLegalMoveByRules(b) ==
    \E p \in PiecesOf(b.turn) : \E from \in b.position[p] : \E to \in Squares :
        /\ MayGoByRules(b.position, p, from, to)
        /\ ~KingAttackedByRules(AfterByRules(b.position, p, from, to), b.turn)

\* The score the claim gives a node without legal moves.
ScoreWithoutMovesByRules(b) ==
    IF ~KingAttackedByRules(b.position, b.turn) THEN 0
    ELSE IF b.turn = "White" THEN I32_MIN ELSE I32_MAX

\* C11: a search node (types search) whose side to move has no legal move
\* is found to have an empty list and is scored the minimum when White is
\* to move and in check, the maximum when Black is to move and in check,
\* and 0 when the side to move is not in check.
C11_NoLegalMovesScore ==
    (impl = "types" /\ ~HasLegalMoveByRules(board))
        => /\ Generated(impl, board, FALSE, <<>>, PieceOrder) = <<>>
           /\ search.done => search.score = ScoreWithoutMovesByRules(board)

\* A checkmated node has been scored.
C11_Witness ==
    /\ impl = "types"
    /\ search.done
    /\ ~HasLegalMoveByRules(board)
    /\ KingAttackedByRules(board.position, board.turn)
    /\ board.turn = "Black"

(***************************************************************************)
(* C12                                                                     *)
(***************************************************************************)
\* C12: the quiescence search of a node returns the node's static
\* evaluation when the node has moves but no critical move, and returns it
\* when the ply counter has reached max_depth.
C12_QuiescenceReturnsStaticEvaluation ==
    \A k \in 1..Len(search.quiescence) :
        LET q == search.quiescence[k]
        IN  (\/ q.depth_counter >= search.max_depth
             \/ q.node.moves # <<>> /\ available_moves_of(q.node, TRUE) = <<>>)
                => q.value = q.node.current_eval

(***************************************************************************)
(* C13                                                                     *)
(***************************************************************************)
\* C13: once the channel has closed, the consumer's running best score is
\* the score the sequential search of the same root with the full window
\* returns, in every interleaving of the workers.
C13_ParallelScoreEqualsSequential ==
    (par.running /\ par.consumer.finished)
        => par.consumer.best_eval = minimax_alpha_beta(par.root, par.turn, par.depth, par.max_depth, I32_MIN, I32_MAX, 0)

(***************************************************************************)
(* C14                                                                     *)
(***************************************************************************)
\* The exact minimax value of the searched root.
RootValue == exhaustive_minimax(par.root, par.turn, par.depth, par.max_depth, 0)

SharedBoundsMonotone ==
    par.main_alpha' >= par.main_alpha /\ par.main_beta' <= par.main_beta

SharedBoundsValid ==
    par.main_alpha <= RootValue /\ RootValue <= par.main_beta

\* C14: the shared alpha only increases, the shared beta only decreases,
\* and at every moment alpha is no greater and beta no smaller than the
\* exact minimax value of the root.
C14_SharedBoundsMonotoneAndValid ==
    [][SharedBoundsMonotone]_vars /\ [](SharedBoundsValid)

(***************************************************************************)
(* C15                                                                     *)
(***************************************************************************)

\* The workers of a search: one for each move of the root.
WorkerIds == UNION {1..Len(root.moves) : root \in ParLiveRoots}

\* The positions of a worker after its send.
AfterSend == {"check_alpha", "check_beta", "store_stop", "done"}

StopOnlyAfterCut == par.stop_signal => \E i \in Workers : par.worker[i].observed

StopNeverCleared == par.stop_signal => par'.stop_signal

\* A worker that loads a set flag returns without searching or sending, and
\* a worker that has returned does nothing more.
StoppedWorkerReturns ==
    \A i \in Workers :
        /\ (par.worker[i].pc = "start" /\ par.stop_signal /\ par'.worker[i] # par.worker[i])
              => (par'.worker[i] = [par.worker[i] EXCEPT !.pc = "done"] /\ par'.channel = par.channel)
        /\ par.worker[i].pc = "done" => par'.worker[i] = par.worker[i]

NoSearchNoSend == \A i \in Workers : ~par.worker[i].searched => par.worker[i].sent = 0

SendsOnce ==
    \A i \in Workers :
        /\ par.worker[i].sent <= 1
        /\ (par.worker[i].searched /\ par.worker[i].pc \in AfterSend) => par.worker[i].sent = 1

ClosedAfterWorkers ==
    /\ par.tx_dropped => \A i \in Workers : par.worker[i].pc = "done"
    /\ par.consumer.finished => (par.tx_dropped /\ par.channel = <<>>)

\* C15: the stop flag is set only after a worker has observed alpha >= beta
\* and is never cleared; a worker that observes the flag before its
\* sub-search neither searches nor sends; a worker whose sub-search completed
\* sends exactly once, even if the flag is set meanwhile; the channel closes
\* after all workers have finished, and the consumer's loop terminates.
C15_StopFlagAndChannelProtocol ==
    /\ [](StopOnlyAfterCut /\ NoSearchNoSend /\ SendsOnce /\ ClosedAfterWorkers)
    /\ [][StopNeverCleared /\ StoppedWorkerReturns]_vars
    /\ \A i \in WorkerIds : (par.worker[i].searched ~> par.worker[i].sent = 1)
    /\ <>(par.consumer.finished)

\* The flag has been set, a worker has returned without searching, another
\* has searched and sent, and the consumer's loop has ended.
C15_Witness ==
    /\ par.running
    /\ par.stop_signal
    /\ par.consumer.finished
    /\ \E i \in Workers : ~par.worker[i].searched /\ par.worker[i].pc = "done"
    /\ \E i \in Workers : par.worker[i].searched /\ par.worker[i].sent = 1

(***************************************************************************)
(* C16                                                                     *)
(***************************************************************************)

RECURSIVE NodeAt(_, _)
\* The position reached from node by the moves of path, or Unexplored when
\* the path names a move the position does not have.
NodeAt(node, path) ==
    IF path = <<>> THEN node
    ELSE IF Head(path) \in 1..Len(node.moves) THEN NodeAt(node.moves[Head(path)].next, Tail(path))
    ELSE Unexplored

\* Every move of the path is a move of the position it is played in.
IsPlayable(root, path) ==
    \A k \in 1..Len(path) : path[k] \in 1..Len(NodeAt(root, SubSeq(path, 1, k - 1)).moves)

\* The moves of line can be played one after the other from root.
IsLegalLine(root, line) ==
    \A k \in 1..Len(line) :
        /\ Len(line[k]) = k
        /\ IsPlayable(root, line[k])
        /\ k > 1 => SubSeq(line[k], 1, k - 1) = line[k - 1]

\* C16: every reported tuple (move, score, PV), and so the consumer's line,
\* is the move followed by the PV of the chosen replies: playing the move and
\* then the PV is a legal sequence of moves from the root.
C16_ReportedLinesAreLegal ==
    /\ \A k \in 1..Len(par.channel) : IsLegalLine(par.root, <<par.channel[k].move>> \o par.channel[k].pv)
    /\ IsLegalLine(par.root, par.consumer.pv)

\* The same, for the searches started without a hint.
LegalWithoutHint == par.current_pv = <<>> => C16_ReportedLinesAreLegal

(***************************************************************************)
(* Parsing of boards, squares and castling rights                          *)
(*                                                                         *)
(* A string is the sequence of its characters.  A parse ends in Ok(value), *)
(* in Err, or in a panic of the thread.                                    *)
(***************************************************************************)
Ok(v) == [kind |-> "Ok", value |-> v]

Err == [kind |-> "Err"]

Panics == [kind |-> "Panic"]

\* c as u8, for the characters the inputs are written with
CodeOf ==
    [c \in {"A", "B", "C", "D", "E", "F", "G", "H", "I"} |->
        CASE c = "A" -> 65 [] c = "B" -> 66 [] c = "C" -> 67 [] c = "D" -> 68 [] c = "E" -> 69
          [] c = "F" -> 70 [] c = "G" -> 71 [] c = "H" -> 72 [] OTHER -> 73]
    @@ [c \in {"a", "b", "c", "d", "e", "f", "g", "h", "i", "x"} |->
        CASE c = "a" -> 97 [] c = "b" -> 98 [] c = "c" -> 99 [] c = "d" -> 100 [] c = "e" -> 101
          [] c = "f" -> 102 [] c = "g" -> 103 [] c = "h" -> 104 [] c = "i" -> 105 [] OTHER -> 120]
    @@ [c \in DOMAIN to_digit |-> 48 + to_digit[c]]
    @@ [c \in {"-", "@"} |-> IF c = "-" THEN 45 ELSE 64]

\* u8::to_ascii_uppercase
to_ascii_uppercase(code) == IF code \in 97..122 THEN code - 32 ELSE code

\* The value of a u8 expression that wrapped around.
WrapU8(x) == (x + 8 * U8) % U8

\* TryFrom<&str> for Bitboard.  With overflow checks (debug) an overflowing
\* subtraction, addition, multiplication or shift panics; without them
\* (release) the u8 value wraps and the shift amount is taken modulo 64.
try_from_str(bld, s) ==
    IF Len(s) = 0 THEN Err
    ELSE LET column_raw == to_ascii_uppercase(CodeOf[s[1]]) - 64
             column_number == WrapU8(column_raw)
         IN  IF column_raw < 0 /\ bld = "debug" THEN Panics
             ELSE IF Len(s) < 2 THEN Err
             ELSE IF s[2] \notin DOMAIN to_digit THEN Err
             ELSE LET row_number == to_digit[s[2]]
                      left_raw == 8 - column_number
                      row_raw == row_number - 1
                      times_raw == WrapU8(row_raw) * 8
                      sum_raw == WrapU8(left_raw) + WrapU8(times_raw)
                      shift == WrapU8(sum_raw)
                      overflow == left_raw < 0 \/ row_raw < 0 \/ times_raw >= U8 \/ sum_raw >= U8 \/ shift >= 64
                  IN  IF overflow /\ bld = "debug" THEN Panics ELSE Ok({shift % 64})

\* Castle::from_str
castle_from_str(s) ==
    CASE s = <<"K", "Q", "k", "q">> -> Ok(<<"Both", "Both">>)
      [] s = <<"K", "k", "q">> -> Ok(<<"King", "Both">>)
      [] s = <<"Q", "k", "q">> -> Ok(<<"Queen", "Both">>)
      [] s = <<"k", "q">> -> Ok(<<"No", "Both">>)
      [] s = <<"k">> -> Ok(<<"No", "King">>)
      [] s = <<"q">> -> Ok(<<"No", "Queen">>)
      [] s = <<"K", "Q", "k">> -> Ok(<<"Both", "King">>)
      [] s = <<"K", "Q", "q">> -> Ok(<<"Both", "Queen">>)
      [] s = <<"K", "Q">> -> Ok(<<"Both", "No">>)
      [] s = <<"K">> -> Ok(<<"King", "No">>)
      [] s = <<"Q">> -> Ok(<<"Queen", "No">>)
      [] s = <<"-">> -> Ok(<<"No", "No">>)
      [] OTHER -> Err

\* TryFrom<&str> for Color, Color::turn_from_str
turn_from_str(s) ==
    IF s \in {<<"w">>, <<"W">>} THEN Ok("White")
    ELSE IF s \in {<<"b">>, <<"B">>} THEN Ok("Black")
    ELSE Err

RECURSIVE DigitsValue(_, _, _)
DigitsValue(s, i, acc) == IF i > Len(s) THEN acc ELSE DigitsValue(s, i + 1, acc * 10 + to_digit[s[i]])

\* str::parse for an unsigned integer not above max (u8::MAX for reps_50;
\* the counters of the inputs have at most three digits, far below u32::MAX)
parse_unsigned(s, max) ==
    IF Len(s) = 0 \/ \E i \in 1..Len(s) : s[i] \notin DOMAIN to_digit THEN Err
    ELSE IF DigitsValue(s, 1, 0) > max THEN Err
    ELSE Ok(DigitsValue(s, 1, 0))

RECURSIVE FenParse(_, _, _, _, _)
\* The loop of BBPosition::from_fen_notation and Bitboards::from_fen_position
\* on any placement: 1 << index with index outside 0..63 panics with
\* overflow checks and takes index modulo 64 without.
FenParse(bld, t, i, index, bb) ==
    IF i > Len(t) THEN Ok(bb)
    ELSE IF t[i] \in DOMAIN to_digit THEN FenParse(bld, t, i + 1, index - to_digit[t[i]], bb)
    ELSE IF t[i] \notin Pieces THEN Err
    ELSE IF index \notin Squares /\ bld = "debug" THEN Panics
    ELSE FenParse(bld, t, i + 1, index - 1, [bb EXCEPT ![t[i]] = @ \cup {(index + 64 * 64) % 64}])

\* s.replace("/", "")
without_slashes(s) == SelectSeq(s, LAMBDA c : c # "/")

\* Board::from_forsyth_edwards on the fields of s.split(" ")
from_forsyth_edwards(bld, pieces) ==
    IF Len(pieces) # 6 THEN Err
    ELSE LET position == FenParse(bld, without_slashes(pieces[1]), 1, 63, empty_position)
             turn == turn_from_str(pieces[2])
             en_passant_target == IF pieces[4] = <<"-">> THEN Ok({}) ELSE try_from_str(bld, pieces[4])
             castling == castle_from_str(pieces[3])
             reps_50 == parse_unsigned(pieces[5], U8 - 1)
             moves_count == parse_unsigned(pieces[6], I32_MAX)
         IN  IF position.kind # "Ok" THEN position
             ELSE IF turn.kind # "Ok" THEN turn
             ELSE IF en_passant_target.kind # "Ok" THEN en_passant_target
             ELSE IF castling.kind # "Ok" THEN castling
             ELSE IF reps_50.kind # "Ok" THEN reps_50
             ELSE IF moves_count.kind # "Ok" THEN moves_count
             ELSE Ok(NewBoard(position.value, turn.value, en_passant_target.value, castling.value[1], castling.value[2], reps_50.value, moves_count.value))

(***************************************************************************)
(* The state machine: one parse of one input                               *)
(***************************************************************************)
RECURSIVE JoinRanks(_, _)
\* The placement field made of the given ranks.
JoinRanks(ranks, i) ==
    IF i > Len(ranks) THEN <<>>
    ELSE IF i = Len(ranks) THEN ranks[i]
    ELSE ranks[i] \o <<"/">> \o JoinRanks(ranks, i + 1)

BackRank == <<"r", "n", "b", "q", "k", "b", "n", "r">>

PawnRank == <<"p", "p", "p", "p", "p", "p", "p", "p">>

WhitePawnRank == <<"P", "P", "P", "P", "P", "P", "P", "P">>

WhiteBackRank == <<"R", "N", "B", "Q", "K", "B", "N", "R">>

\* The starting placement; an empty board; a ninth piece on the first rank
\* (65 squares); nine empty ranks (72 squares); an unknown letter.
FenPlacements ==
    {JoinRanks(<<BackRank, PawnRank, <<"8">>, <<"8">>, <<"8">>, <<"8">>, WhitePawnRank, WhiteBackRank>>, 1),
     JoinRanks(<<<<"8">>, <<"8">>, <<"8">>, <<"8">>, <<"8">>, <<"8">>, <<"8">>, <<"8">>>>, 1),
     JoinRanks(<<BackRank, PawnRank, <<"8">>, <<"8">>, <<"8">>, <<"8">>, WhitePawnRank, WhiteBackRank \o <<"R">>>>, 1),
     JoinRanks(<<<<"8">>, <<"8">>, <<"8">>, <<"8">>, <<"8">>, <<"8">>, <<"8">>, <<"8">>, <<"8">>>>, 1),
     JoinRanks(<<BackRank, PawnRank, <<"8">>, <<"8">>, <<"8">>, <<"8">>, WhitePawnRank, <<"R", "N", "B", "Q", "K", "B", "N", "x">>>>, 1)}

FenTurns == {<<"w">>, <<"b">>, <<"x">>, <<>>}

\* '-' and the 15 non-empty subsets of KQkq, written in that order.
CastleTokens ==
    {<<"-">>} \cup
    {SelectSeq(<<"K", "Q", "k", "q">>, LAMBDA c : c \in S) : S \in (SUBSET {"K", "Q", "k", "q"}) \ {{}}}

\* Tokens that name no castling rights.
BadCastleTokens == {<<>>, <<"x">>, <<"q", "k">>, <<"K", "K">>, <<"-", "-">>}

FenCastles == {<<"K", "Q", "k", "q">>, <<"-">>, <<"K", "Q">>, <<"x">>}

FenSquares == {<<"-">>, <<"e", "3">>, <<"E", "6">>, <<"a", "0">>, <<"a", "9">>, <<"i", "3">>, <<"e">>, <<"e", "x">>, <<"3", "e">>}

FenCounters == {<<"0">>, <<"5", "0">>, <<"x">>, <<>>}

FenMoveCounts == {<<"1">>, <<"x">>}

\* The descriptions: six fields, and the same with the last field missing
\* or with one field more.
FenInputs ==
    LET six == {<<p, t, c, e, r, m>> : p \in FenPlacements, t \in FenTurns, c \in FenCastles, e \in FenSquares, r \in FenCounters, m \in FenMoveCounts}
        plain == {f \in six : f[2] = <<"w">> /\ f[4] = <<"-">> /\ f[5] = <<"0">>}
    IN  six \cup {SubSeq(f, 1, 5) : f \in plain} \cup {f \o <<<<"1">>>> : f \in plain}

SquareChars == {"A", "C", "H", "I", "a", "c", "h", "i", "x", "0", "1", "6", "7", "8", "9", "@", "-"}

\* Every string of at most two of the characters, and some longer ones.
SquareInputs ==
    {<<>>} \cup {<<c>> : c \in SquareChars} \cup {<<c, d>> : c \in SquareChars, d \in SquareChars}
    \cup {<<"A", "1", "x">>, <<"c", "7", "7">>}

ParseInit ==
    /\ impl \in {"components", "types"}
    /\ build \in {"debug", "release"}
    /\ board = StartBoard
    /\ prev = StartBoard
    /\ last = NoMove
    /\ offered = <<>>
    /\ mode = "parse"
    /\ ply = 0
    /\ panicked = FALSE
    /\ perft = NoPerft
    /\ search = NoSearch
    /\ par = NoPar
    /\ \/ \E f \in FenInputs : parse = [kind |-> "fen", input |-> f, done |-> FALSE]
       \/ \E s \in SquareInputs : parse = [kind |-> "square", input |-> s, done |-> FALSE]
       \/ \E s \in CastleTokens \cup BadCastleTokens : parse = [kind |-> "castle", input |-> s, done |-> FALSE]

\* The call returns or panics.
Parsed(result) ==
    /\ parse' = [kind |-> parse.kind, input |-> parse.input, done |-> TRUE, result |-> result]
    /\ panicked' = (result.kind = "Panic")
    /\ UNCHANGED <<impl, build, board, prev, last, offered, mode, ply, perft, search, par>>

ParseBoard ==
    /\ mode = "parse" /\ parse.kind = "fen" /\ ~parse.done
    /\ Parsed(from_forsyth_edwards(build, parse.input))

ParseSquare ==
    /\ mode = "parse" /\ parse.kind = "square" /\ ~parse.done
    /\ Parsed(try_from_str(build, parse.input))

ParseCastle ==
    /\ mode = "parse" /\ parse.kind = "castle" /\ ~parse.done
    /\ Parsed(castle_from_str(parse.input))

ParseNext == ParseBoard \/ ParseSquare \/ ParseCastle

ParseSpec == ParseInit /\ [][ParseNext]_vars

(***************************************************************************)
(* C17                                                                     *)
(***************************************************************************)

RECURSIVE SquaresDescribed(_, _)
\* The number of squares a placement field describes.
SquaresDescribed(p, i) ==
    IF i > Len(p) THEN 0
    ELSE (IF p[i] = "/" THEN 0 ELSE IF p[i] \in DOMAIN to_digit THEN to_digit[p[i]] ELSE 1) + SquaresDescribed(p, i + 1)

\* A file letter a-h in either case followed by a rank digit 1-8.
IsSquareName(s) ==
    /\ Len(s) = 2
    /\ s[1] \in {"A", "B", "C", "D", "E", "F", "G", "H", "a", "b", "c", "d", "e", "f", "g", "h"}
    /\ s[2] \in {"1", "2", "3", "4", "5", "6", "7", "8"}

IsNumber(s) == Len(s) > 0 /\ \A i \in 1..Len(s) : s[i] \in DOMAIN to_digit

\* The malformed descriptions the claim lists.
Malformed(f) ==
    \/ Len(f) # 6
    \/ \E i \in 1..Len(f[1]) : f[1][i] \notin Pieces \cup DOMAIN to_digit \cup {"/"}
    \/ SquaresDescribed(f[1], 1) > 64
    \/ f[2] \notin {<<"w">>, <<"b">>}
    \/ f[3] \notin CastleTokens
    \/ (f[4] # <<"-">> /\ ~IsSquareName(f[4]))
    \/ ~IsNumber(f[5])
    \/ ~IsNumber(f[6])

\* C17: constructing a board from a malformed description (wrong field
\* count, unknown piece letter, more than 64 squares, invalid side or
\* castling token, malformed en-passant square, non-numeric counter) returns
\* an error: it neither panics nor gives a board.
C17_MalformedDescriptionIsAnError ==
    (parse.kind = "fen" /\ parse.done /\ Malformed(parse.input)) => parse.result = Err

(***************************************************************************)
(* C18                                                                     *)
(***************************************************************************)

\* The characters of a string.
CharsOf(s) == {s[i] : i \in 1..Len(s)}

\* The rights a token names for the side whose letters are k and q.
RightsNamed(s, k, q) ==
    IF k \in CharsOf(s) /\ q \in CharsOf(s) THEN "Both"
    ELSE IF k \in CharsOf(s) THEN "King"
    ELSE IF q \in CharsOf(s) THEN "Queen"
    ELSE "No"

\* C18: parsing the castling field succeeds for '-' and for each of the 15
\* non-empty ordered subsets of KQkq, and gives exactly the rights named.
C18_CastlingTokensParse ==
    (parse.kind = "castle" /\ parse.done /\ parse.input \in CastleTokens)
        => parse.result = Ok(<<RightsNamed(parse.input, "K", "Q"), RightsNamed(parse.input, "k", "q")>>)

(***************************************************************************)
(* C19                                                                     *)
(***************************************************************************)

\* The bit of a named square: (8 - file number) + 8 * (rank - 1).
BitOfSquareName(s) == (8 - (to_ascii_uppercase(CodeOf[s[1]]) - 64)) + 8 * (to_digit[s[2]] - 1)

\* C19: parsing a square string is Ok exactly for a file letter A-H in
\* either case followed by a rank digit 1-8, with the single bit
\* (8 - file number) + 8 * (rank - 1), and an error, without a panic, for
\* every other string.
C19_SquareStringsParse ==
    (parse.kind = "square" /\ parse.done)
        => parse.result = (IF IsSquareName(parse.input) THEN Ok({BitOfSquareName(parse.input)}) ELSE Err)

(***************************************************************************)
(* The manual-move entry point (types/board.rs)                            *)
(***************************************************************************)
\* Board::manual_move_is_valid for a Standard move whose squares are the
\* bitboards from and to
manual_move_is_valid(b, piece, from, to, precalculated_resulting_position) ==
    IF color_of(piece) # b.turn THEN FALSE
    ELSE IF b.position[piece] \cap from = {} THEN FALSE
    ELSE LET other_side == other(color_of(piece))
             valid_moves == IF kind_of(piece) = "Pawn"
                            THEN moves_generator(piece, from, occupied_cells(b.position), occupied_by(b.position, other_side))
                            ELSE moves_generator(piece, from, occupied_by(b.position, color_of(piece)), occupied_by(b.position, other_side))
         IN  IF valid_moves \cap to = {} THEN FALSE
             ELSE IF b.reps_50 > 49 THEN FALSE
             ELSE ~is_in_check("types", precalculated_resulting_position, color_of(piece))

\* Board::make_checked_manual_move with from and to given as strings
make_checked_manual_move(bld, b, piece, from, to) ==
    LET f == try_from_str(bld, from)
        t == try_from_str(bld, to)
    IN  IF f.kind # "Ok" THEN f
        ELSE IF t.kind # "Ok" THEN t
        ELSE \* next_board is computed before the move is looked at
             LET player_move == Standard(piece, CHOOSE x \in f.value : TRUE, CHOOSE x \in t.value : TRUE)
                 next_board == make_unchecked_move("types", b, player_move)
             IN  IF ~manual_move_is_valid(b, piece, f.value, t.value, next_board.position) THEN Err
                 ELSE Ok(next_board)

\* "r1b1kbnr/pppp1ppp/2n2q2/4p3/2BPP3/5N2/PPP2PPP/RNBQK2R b KQkq - 2 4",
\* the board of the tests legal_move and illegal_moves
ManualTestBoard ==
    NewBoard(from_fen_notation(
        <<"r", "1", "b", "1", "k", "b", "n", "r", "p", "p", "p", "p", "1", "p", "p", "p",
          "2", "n", "2", "q", "2", "4", "p", "3", "2", "B", "P", "P", "3", "5", "N", "2",
          "P", "P", "P", "2", "P", "P", "P", "R", "N", "B", "Q", "K", "2", "R">>),
        "Black", {}, "Both", "Both", 2, 4)

\* "4k3/4r3/8/8/8/8/4R3/4K3 b - - <reps_50> 60": the black rook is pinned.
PinnedRookBoard(reps_50) ==
    NewBoard(from_fen_notation(
        <<"4", "k", "3", "4", "r", "3", "8", "8", "8", "8", "4", "R", "3", "4", "K", "3">>),
        "Black", {}, "No", "No", reps_50, 60)

ManualBoards == {ManualTestBoard, PinnedRookBoard(0), PinnedRookBoard(50)}

ManualPieces == {"p", "n", "r", "k", "P", "R"}

\* The name of a square, file letter first.
NameOf(sq) == <<<<"a", "b", "c", "d", "e", "f", "g", "h">>[8 - (sq % 8)], <<"1", "2", "3", "4", "5", "6", "7", "8">>[(sq \div 8) + 1]>>

\* A string that names no square.
BadSquareName == <<"a", "9">>

ManualInit ==
    /\ impl = "types"
    /\ build \in {"debug", "release"}
    /\ board \in ManualBoards
    /\ prev = board
    /\ last = NoMove
    /\ offered = <<>>
    /\ mode = "manual"
    /\ ply = 0
    /\ panicked = FALSE
    /\ perft = NoPerft
    /\ search = NoSearch
    /\ par = NoPar
    /\ \E piece \in ManualPieces :
       \E from \in {NameOf(sq) : sq \in occupied_cells(board.position)} \cup {BadSquareName} :
       \E to \in {NameOf(sq) : sq \in Squares} \cup {BadSquareName} :
          parse = [kind |-> "manual", input |-> [piece |-> piece, from |-> from, to |-> to], done |-> FALSE]

\* One call of the entry point; self is borrowed and stays as it is.
ManualMove ==
    /\ mode = "manual" /\ parse.kind = "manual" /\ ~parse.done
    /\ Parsed(make_checked_manual_move(build, board, parse.input.piece, parse.input.from, parse.input.to))

ManualNext == ManualMove

ManualSpec == ManualInit /\ [][ManualNext]_vars

(***************************************************************************)
(* C20                                                                     *)
(***************************************************************************)

\* The square a name stands for.
SquareNamed(s) == BitOfSquareName(s)

\* The requested move is a legal move of the side to move (en passant,
\* castling and the choice of a promotion piece are not requests of this
\* entry point).
LegalRequest(b, r) ==
    /\ IsSquareName(r.from) /\ IsSquareName(r.to)
    /\ color_of(r.piece) = b.turn
    /\ SquareNamed(r.from) \in b.position[r.piece]
    /\ MayGoByRules(b.position, r.piece, SquareNamed(r.from), SquareNamed(r.to))
    /\ ~KingAttackedByRules(AfterByRules(b.position, r.piece, SquareNamed(r.from), SquareNamed(r.to)), b.turn)

\* C20: the manual-move entry point returns Ok with the successor board
\* when the requested move is legal for the side to move and an Err, never
\* a panic, when it is not; the original board is not modified.
C20_ManualMoveCheckedAndPure ==
    (parse.kind = "manual" /\ parse.done) =>
        /\ board = prev
        /\ IF LegalRequest(board, parse.input)
           THEN /\ parse.result.kind = "Ok"
                /\ parse.result.value.turn = other(board.turn)
                /\ parse.result.value.position = AfterByRules(board.position, parse.input.piece, SquareNamed(parse.input.from), SquareNamed(parse.input.to))
           ELSE parse.result = Err

(***************************************************************************)
(* The state machine: one call of one pattern generator                    *)
(***************************************************************************)
\* A generator called with its three bitboards.  bishop(), rook() and
\* queen() compute 63 - leading_zeros(): on an empty origin the subtraction
\* panics under overflow checks.
call_generator(bld, piece, starting_position, blockers, enemies) ==
    IF kind_of(piece) \in {"Bishop", "Rook", "Queen"} /\ starting_position = {} /\ bld = "debug"
    THEN Panics
    ELSE Ok(moves_generator(piece, starting_position, blockers, enemies))

GeneratorPieces == {"P", "p", "N", "B", "R", "Q", "K"}

\* The squares two pieces of a kind are taken from.
PairSquares == {8, 17, 27, 36, 63}

\* No piece, one piece on any square, two pieces.
GeneratorOrigins ==
    {{}} \cup {{sq} : sq \in Squares} \cup {{a, b} : a \in PairSquares, b \in PairSquares}

\* The squares other pieces are put on.
OtherSquares == {19, 25, 35, 59}

GeneratorInit ==
    /\ impl = "components"
    /\ build \in {"debug", "release"}
    /\ board = StartBoard
    /\ prev = StartBoard
    /\ last = NoMove
    /\ offered = <<>>
    /\ mode = "generator"
    /\ ply = 0
    /\ panicked = FALSE
    /\ perft = NoPerft
    /\ search = NoSearch
    /\ par = NoPar
    /\ \E piece \in GeneratorPieces, origin \in GeneratorOrigins, others \in [OtherSquares -> {"free", "own", "enemy"}] :
          parse = [kind |-> "generator",
                   input |-> [piece |-> piece, origin |-> origin,
                              own |-> origin \cup {sq \in OtherSquares : others[sq] = "own"},
                              enemies |-> {sq \in OtherSquares \ origin : others[sq] = "enemy"}],
                   done |-> FALSE]

\* The blockers a generator is called with: every piece for a pawn, the
\* pieces of the own colour for the others.
BlockersOf(input) == IF kind_of(input.piece) = "Pawn" THEN input.own \cup input.enemies ELSE input.own

CallGenerator ==
    /\ mode = "generator" /\ parse.kind = "generator" /\ ~parse.done
    /\ Parsed(call_generator(build, parse.input.piece, parse.input.origin, BlockersOf(parse.input), parse.input.enemies))

GeneratorNext == CallGenerator

GeneratorSpec == GeneratorInit /\ [][GeneratorNext]_vars

(***************************************************************************)
(* C21                                                                     *)
(***************************************************************************)

\* The union of what the generator returns for each piece of the origin
\* taken alone.
UnionOfSingles(input) ==
    UNION {moves_generator(input.piece, {sq}, BlockersOf(input), input.enemies) : sq \in input.origin}

\* C21: a pattern generator called with an origin of zero, one or several
\* pieces returns the union of its results for each piece taken as a
\* single-square origin, the empty bitboard for an empty origin.
C21_GeneratorsDistributeOverOrigin ==
    (parse.kind = "generator" /\ parse.done) => parse.result = Ok(UnionOfSingles(parse.input))

(***************************************************************************)
(* C24                                                                     *)
(***************************************************************************)

\* The squares a slider on from reaches: on one of its lines, nothing in
\* between, not a square of its own colour.
ReachedByRules(piece, from, own, enemies) ==
    {t \in Squares \ own :
        LET dr == RowOf(t) - RowOf(from)
            dc == ColOf(t) - ColOf(from)
            straight == (dr = 0) # (dc = 0)
            diagonal == Abs(dr) = Abs(dc) /\ dr # 0
        IN  /\ CASE kind_of(piece) = "Bishop" -> diagonal
                 [] kind_of(piece) = "Rook" -> straight
                 [] OTHER -> straight \/ diagonal
            /\ SquaresBetween(from, t) \cap (own \cup enemies) = {}}

SingleSlider == parse.kind = "generator" /\ parse.done /\ kind_of(parse.input.piece) \in {"Bishop", "Rook", "Queen"} /\ Cardinality(parse.input.origin) = 1

\* C24: for a single bishop, rook or queen on any square and any occupancy
\* the generator returns exactly the squares reached by walking its rays,
\* stopping before the first friendly piece and on the first enemy piece.
C24_SlidersWalkTheirRays ==
    SingleSlider =>
        parse.result = Ok(ReachedByRules(parse.input.piece, CHOOSE sq \in parse.input.origin : TRUE, parse.input.own, parse.input.enemies))

\* A queen in the middle whose rays meet a friendly and an enemy piece.
C24_Witness ==
    /\ SingleSlider
    /\ parse.input.piece = "Q"
    /\ parse.input.origin = {27}
    /\ parse.input.own = {27, 19}
    /\ parse.input.enemies = {25, 35, 59}
    /\ parse.result.kind = "Ok"
    /\ {25, 35, 26, 28} \subseteq parse.result.value
    /\ {19, 11, 24, 43, 59} \cap parse.result.value = {}

(***************************************************************************)
(* C22                                                                     *)
(***************************************************************************)

\* The position after a move of the list.
AfterMoveByRules(b, m) ==
    IF m.action = "Standard" THEN AfterByRules(b.position, m.piece, m.from, m.to)
    ELSE inner_make_unchecked_move(b.position, m)

\* The group of a move in the order of the claim (no hint is given):
\* 2 escapes a check, 3 promotion, 4 gives check, 5 capture, 6 quiet.
GroupByRules(b, m) ==
    IF KingAttackedByRules(b.position, b.turn) THEN 2
    ELSE IF m.action = "Promote" THEN 3
    ELSE IF KingAttackedByRules(AfterMoveByRules(b, m), other(b.turn)) THEN 4
    ELSE IF m.action = "Standard" /\ m.to \in AllOccupied(b.position) THEN 5
    ELSE 6

\* Victim minus attacker of a capture.
CaptureValueByRules(b, m) == value(kind_of(piece_at(b.position, m.to))) - value(kind_of(m.piece))

GroupsInOrder(b, list) ==
    \A i \in 1..Len(list) : \A j \in (i + 1)..Len(list) :
        /\ GroupByRules(b, list[i]) <= GroupByRules(b, list[j])
        /\ (GroupByRules(b, list[i]) = 5 /\ GroupByRules(b, list[j]) = 5)
              => CaptureValueByRules(b, list[i]) >= CaptureValueByRules(b, list[j])

NoMoveTwice(list) == \A i \in 1..Len(list) : \A j \in 1..Len(list) : list[i] = list[j] => i = j

\* C22: the full list of the types generator holds every legal move once,
\* in consecutive groups: check escapes, promotions, moves that give check
\* (the opponent's king is attacked after the move), captures by
\* descending victim-minus-attacker value, quiet moves.
C22_FullListIsGroupedAndOrdered ==
    (impl = "types" /\ Moved /\ mode = "full") =>
        /\ GroupsInOrder(prev, offered)
        /\ NoMoveTwice(offered)

(***************************************************************************)
(* C23                                                                     *)
(***************************************************************************)
\* The piece p on from may legally go to the square on the board b.
LegalByRules(b, p, from, to) ==
    /\ MayGoByRules(b.position, p, from, to)
    /\ ~KingAttackedByRules(AfterByRules(b.position, p, from, to), b.turn)

\* The list holds the move of the piece p from one square to the other.
Offers(list, p, from, to) ==
    \E i \in 1..Len(list) :
        list[i].action # "Castle" /\ list[i].piece = p /\ list[i].from = from /\ list[i].to = to

\* Every legal capture of the board, and every legal move when its side to
\* move is in check, is in the list.
CriticalMovesAllOffered(b, list) ==
    \A p \in PiecesOf(b.turn) : \A from \in b.position[p] : \A to \in Squares :
        (/\ LegalByRules(b, p, from, to)
         /\ \/ to \in AllOccupied(b.position)
            \/ KingAttackedByRules(b.position, b.turn))
            => Offers(list, p, from, to)

\* Every move of the list is a legal capture or a legal move of a side in
\* check; none is a castling move.
OnlyCriticalMovesOffered(b, list) ==
    \A i \in 1..Len(list) :
        /\ list[i].action # "Castle"
        /\ LegalByRules(b, list[i].piece, list[i].from, list[i].to)
        /\ \/ list[i].to \in AllOccupied(b.position)
           \/ KingAttackedByRules(b.position, b.turn)

\* C23: with only_critical set the generated list holds every legal
\* capture and, when the mover is in check, every legal check evasion, and
\* no move that is neither a capture nor made while in check: no castling
\* move and no quiet move.
C23_CriticalListIsCapturesAndEvasions ==
    (Moved /\ mode = "critical") =>
        /\ CriticalMovesAllOffered(prev, offered)
        /\ OnlyCriticalMovesOffered(prev, offered)

(***************************************************************************)
(* C25                                                                     *)
(***************************************************************************)
\* The rights hold the side.
HoldsSide(rights, side) == rights = "Both" \/ rights = side

\* The rights of colour c agree with the placement of b: for each side
\* held, the king is on its original square (e1 = 3, e8 = 59) and a rook of
\* the colour is on the corner of that side.
RightsAgreeWithPlacement(b, c) ==
    LET rights == IF c = "White" THEN b.white_can_castle ELSE b.black_can_castle
        king_square == IF c = "White" THEN 3 ELSE 59
        king_corner == IF c = "White" THEN 0 ELSE 56
        queen_corner == IF c = "White" THEN 7 ELSE 63
    IN /\ HoldsSide(rights, "King")
            => /\ king_square \in b.position[Piece(c, "King")]
               /\ king_corner \in b.position[Piece(c, "Rook")]
       /\ HoldsSide(rights, "Queen")
            => /\ king_square \in b.position[Piece(c, "King")]
               /\ queen_corner \in b.position[Piece(c, "Rook")]

\* The numbers of pieces of each kind are the same on both boards.
SamePieceCounts(a, b) ==
    \A p \in Pieces : Cardinality(a.position[p]) = Cardinality(b.position[p])

\* C25: on every board reached by generated moves from a position whose
\* castling rights agree with its placement, a colour holding a castling
\* right has its king on its original square and a rook of its colour on
\* the corner of that side, and a castling move leaves the number of
\* pieces of every kind as it was.
C25_RightsAgreeWithPlacement ==
    /\ RightsAgreeWithPlacement(board, "White")
    /\ RightsAgreeWithPlacement(board, "Black")
    /\ (Moved /\ last.action = "Castle") => SamePieceCounts(prev, board)

(***************************************************************************)
(* C26                                                                     *)
(***************************************************************************)
\* A pawn stands on the rank where it should have been promoted.
PawnOnFarthestRank(position) ==
    \/ \E sq \in position["P"] : RowOf(sq) = 7
    \/ \E sq \in position["p"] : RowOf(sq) = 0

\* C26: no board reached by applying a generated move, of the full or of
\* the critical-only list, has a White pawn on the eighth rank or a Black
\* pawn on the first rank.
C26_NoPawnOnFarthestRank ==
    Moved => ~PawnOnFarthestRank(board.position)

(***************************************************************************)
(* C27                                                                     *)
(***************************************************************************)
\* C27: the quiescence search called with the full window stands pat for
\* both colours: at a node with White to move the returned score is at
\* least the node's static evaluation, at a node with Black to move it is
\* at most the node's static evaluation.
C27_StandPatSymmetric ==
    \A k \in 1..Len(search.quiescence) :
        LET q == search.quiescence[k]
        IN  /\ q.turn = "White" => q.value >= q.node.current_eval
            /\ q.turn = "Black" => q.value <= q.node.current_eval

(***************************************************************************)
(* C28                                                                     *)
(***************************************************************************)
\* The consumer's loop has ended with a principal variation that starts
\* with a move of the root.
ConsumerHasBestMove ==
    /\ par.consumer.finished
    /\ par.consumer.pv # <<>>
    /\ \E i \in Workers : par.consumer.pv[1] = <<i>>

\* C28: a search of a root that has a legal move, run to completion,
\* leaves the consumer of the channel with a best move, a non-empty
\* principal variation whose first move is a root move, whatever the
\* scores of the root moves are.
C28_ConsumerEndsWithBestMove ==
    (par.running /\ par.root.moves # <<>>) ~> ConsumerHasBestMove

(***************************************************************************)
(* C29                                                                     *)
(***************************************************************************)
\* The exact minimax value of the i-th root move: the exhaustive value of
\* the position it leads to.
MoveValue(i) == exhaustive_minimax(par.root.moves[i].next, other(par.turn), par.depth - 1, par.max_depth, 1)

\* C29: in every interleaving of the workers and every arrival order, the
\* move the consumer keeps at the end is a root move whose exact minimax
\* value is the final best score; a move reported with a score that is
\* only a bound under the shared window is not the one kept.
C29_KeptMoveHasExactScore ==
    (par.running /\ par.consumer.finished /\ par.consumer.pv # <<>>)
        => \E i \in Workers :
              /\ par.consumer.pv[1] = <<i>>
              /\ MoveValue(i) = par.consumer.best_eval

(***************************************************************************)
(* The plies a search goes through.  The recursion of utils/evaluation.rs  *)
(* once more, every call reporting besides its value the greatest ply      *)
(* counter of a position it was entered with (deepest), the greatest ply   *)
(* counter the main search was entered with (main_plies), and the greatest *)
(* ply counter of a position from which the quiescence search went on to   *)
(* its moves (recursed_from); -1 stands for none.                          *)
(***************************************************************************)
Went(eval, deepest, main_plies, recursed_from) == [eval |-> eval, deepest |-> deepest, main_plies |-> main_plies, recursed_from |-> recursed_from]

\* The report r of a call, with the plies of the calls made before it.
After(seen, r) == Went(r.eval, Max(seen.deepest, r.deepest), Max(seen.main_plies, r.main_plies), Max(seen.recursed_from, r.recursed_from))

RECURSIVE quiescence_search_plies(_, _, _, _, _, _)
RECURSIVE quiescence_white_plies(_, _, _, _, _, _, _)
RECURSIVE quiescence_black_plies(_, _, _, _, _, _, _)
\* A quiescence search that goes on to the moves of a position whatever
\* its ply counter is.
quiescence_search_beyond_max_depth(node, turn, alpha, beta, depth_counter, max_depth) ==
    LET current_eval == node.current_eval
        here == Went(current_eval, depth_counter, -1, -1)
    IN  IF current_eval >= beta THEN [here EXCEPT !.eval = beta]
        ELSE LET alpha1 == IF current_eval > alpha THEN current_eval ELSE alpha
                 list == available_moves_of(node, TRUE)
                 from_here == [here EXCEPT !.recursed_from = depth_counter]
             IN  IF list = <<>> THEN [here EXCEPT !.eval = no_moves_eval(node, turn)]
                 ELSE IF turn = "White"
                      THEN quiescence_white_plies(list, 1, alpha1, beta, depth_counter, max_depth, from_here)
                      ELSE quiescence_black_plies(list, 1, alpha1, beta, depth_counter, max_depth, from_here)

quiescence_white_plies(list, i, alpha, beta, depth_counter, max_depth, seen) ==
    IF i > Len(list) THEN [seen EXCEPT !.eval = alpha]
    ELSE LET r == After(seen, quiescence_search_plies(list[i].next, "Black", alpha, beta, depth_counter + 1, max_depth))
         IN  IF r.eval >= beta THEN [r EXCEPT !.eval = beta]
             ELSE quiescence_white_plies(list, i + 1, IF r.eval > alpha THEN r.eval ELSE alpha, beta, depth_counter, max_depth, r)

quiescence_black_plies(list, i, alpha, beta, depth_counter, max_depth, seen) ==
    IF i > Len(list) THEN [seen EXCEPT !.eval = beta]
    ELSE LET r == After(seen, quiescence_search_plies(list[i].next, "White", alpha, beta, depth_counter + 1, max_depth))
         IN  IF r.eval <= alpha THEN [r EXCEPT !.eval = alpha]
             ELSE quiescence_black_plies(list, i + 1, alpha, IF r.eval < beta THEN r.eval ELSE beta, depth_counter, max_depth, r)

quiescence_search_plies(node, turn, alpha, beta, depth_counter, max_depth) ==
    LET current_eval == node.current_eval
        here == Went(current_eval, depth_counter, -1, -1)
    IN  IF current_eval >= beta THEN [here EXCEPT !.eval = beta]
        ELSE IF depth_counter >= max_depth THEN here
        ELSE LET alpha1 == IF current_eval > alpha THEN current_eval ELSE alpha
                 list == available_moves_of(node, TRUE)
                 from_here == [here EXCEPT !.recursed_from = depth_counter]
             IN  IF list = <<>> THEN [here EXCEPT !.eval = no_moves_eval(node, turn)]
                 ELSE IF turn = "White"
                      THEN quiescence_white_plies(list, 1, alpha1, beta, depth_counter, max_depth, from_here)
                      ELSE quiescence_black_plies(list, 1, alpha1, beta, depth_counter, max_depth, from_here)

RECURSIVE minimax_alpha_beta_plies(_, _, _, _, _, _, _)
RECURSIVE minimax_white_plies(_, _, _, _, _, _, _, _, _)
RECURSIVE minimax_black_plies(_, _, _, _, _, _, _, _, _)
minimax_white_plies(node, i, depth, max_depth, alpha, beta, depth_counter, max_eval, seen) ==
    IF i > Len(node.moves) THEN [seen EXCEPT !.eval = max_eval]
    ELSE LET r == After(seen, minimax_alpha_beta_plies(node.moves[i].next, "Black", depth - 1, max_depth, alpha, beta, depth_counter + 1))
             new_max == Max(max_eval, r.eval)
             new_alpha == Max(alpha, r.eval)
         IN  IF new_alpha >= beta THEN [r EXCEPT !.eval = new_max]
             ELSE minimax_white_plies(node, i + 1, depth, max_depth, new_alpha, beta, depth_counter, new_max, r)

minimax_black_plies(node, i, depth, max_depth, alpha, beta, depth_counter, min_eval, seen) ==
    IF i > Len(node.moves) THEN [seen EXCEPT !.eval = min_eval]
    ELSE LET r == After(seen, minimax_alpha_beta_plies(node.moves[i].next, "White", depth - 1, max_depth, alpha, beta, depth_counter + 1))
             new_min == Min(min_eval, r.eval)
             new_beta == Min(beta, r.eval)
         IN  IF alpha >= new_beta THEN [r EXCEPT !.eval = new_min]
             ELSE minimax_black_plies(node, i + 1, depth, max_depth, alpha, new_beta, depth_counter, new_min, r)

minimax_alpha_beta_plies(node, turn, depth, max_depth, alpha, beta, depth_counter) ==
    LET here == Went(0, depth_counter, depth_counter, -1)
    IN  IF available_moves_of(node, FALSE) = <<>> THEN [here EXCEPT !.eval = no_moves_eval(node, turn)]
        ELSE IF depth <= 0 THEN After(here, quiescence_search_plies(node, turn, alpha, beta, depth_counter, max_depth))
        ELSE IF turn = "White"
             THEN minimax_white_plies(node, 1, depth, max_depth, alpha, beta, depth_counter, I32_MIN, here)
             ELSE minimax_black_plies(node, 1, depth, max_depth, alpha, beta, depth_counter, I32_MAX, here)

\* The length of the searched lines of captures and checks.
MaxLine == 5

\* The lines of n critical moves: every position has one move, a capture
\* or a check, and the last one has none (mate or stalemate).
RECURSIVE Lines(_)
Lines(n) ==
    IF n = 0 THEN {Node(e, c, <<>>) : e \in Evals, c \in BOOLEAN}
    ELSE {Node(e, FALSE, <<Edge(TRUE, t)>>) : e \in Evals, t \in Lines(n - 1)}

\* The pairs depth, max_depth of the searches of a line.
LineDepths == {<<0, 1>>, <<1, 1>>, <<1, 3>>, <<2, 2>>, <<2, 3>>, <<3, 2>>}

LineInit ==
    /\ impl = "types"
    /\ build = "release"
    /\ board = StartBoard
    /\ prev = StartBoard
    /\ last = NoMove
    /\ offered = <<>>
    /\ mode = "line"
    /\ ply = 0
    /\ panicked = FALSE
    /\ perft = NoPerft
    /\ par = NoPar
    /\ parse = NoParse
    /\ \E root \in Lines(MaxLine), turn \in Colors, d \in LineDepths :
          search = [done |-> FALSE, root |-> root, turn |-> turn, depth |-> d[1], max_depth |-> d[2], quiescence |-> <<>>]

\* One search of the line with the full window.
RunLine ==
    /\ mode = "line"
    /\ ~search.done
    /\ search' = [done |-> TRUE, root |-> search.root, turn |-> search.turn, depth |-> search.depth, max_depth |-> search.max_depth, quiescence |-> <<>>, went |-> minimax_alpha_beta_plies(search.root, search.turn, search.depth, search.max_depth, I32_MIN, I32_MAX, 0)]
    /\ UNCHANGED <<impl, build, board, prev, last, offered, mode, ply, panicked, perft, par, parse>>

LineNext == RunLine

LineSpec == LineInit /\ [][LineNext]_vars

(***************************************************************************)
(* C30                                                                     *)
(***************************************************************************)
\* A search of a line has returned.
LineSearched == mode = "line" /\ search.done

RECURSIVE AlongLine(_, _)
AlongLine(node, n) == IF n = 0 THEN node ELSE AlongLine(node.moves[1].next, n - 1)

====
